---- MODULE Spec2Model ----
(***************************************************************************)
(* Verification model of the vector-elevation-model tile pipeline:         *)
(*   - Marching Squares tracing (src/lib/dem/contour.ts)                   *)
(*   - coordinate transform and clipping (lib/tiles/coordinate-transform)  *)
(*   - source tile fetching (lib/tiles/fetcher)                            *)
(*   - the tile request handler (src/worker/tile-handler.ts)               *)
(*                                                                         *)
(* Numbers.  Grid values and levels are integers in units of 1/2, so that  *)
(* the test grids {0,1} with level 0.5 are {0,2} with level 1.  A traced   *)
(* coordinate component is a pair <<q, e>> standing for the real number    *)
(*     q / Scale + e * EPSILON          (EPSILON = 1e-10)                  *)
(* which is exact for every interpolation the bounded inputs can produce.  *)
(* Products of two such numbers are triples <<a, b, c>> standing for       *)
(*     a / Scale^2 + b * EPSILON / Scale + c * EPSILON^2                   *)
(* and are compared lexicographically.  Floating point rounding is not     *)
(* modelled.                                                               *)
(***************************************************************************)
EXTENDS Integers, Sequences, FiniteSets, TLC

VARIABLES
    grid,       \* tracer input: [width, height, data] (data row-major, 1-based)
    level,      \* tracer input: the threshold
    tracePc,    \* "idle" | "input" | "lines" | "polygons"
    lines,      \* result of traceLines: sequence of polylines
    polys,      \* result of tracePolygons: sequence of polygons (sequences of rings)
    clipCfg,    \* TransformConfig of the clip call
    clipIn,     \* features handed to transform-and-clip
    clipPc,     \* "idle" | "input" | "lines" | "polygons"
    clipOut,    \* features returned by transform-and-clip
    workload,   \* the tile requests the worker receives: [kind, params, env]
    rq,         \* per request: position in the handler and its local state
    cache,      \* caches.default: set of entries [key, response, under]
    pendingPuts,    \* cache writes handed to waitUntil and not yet landed
    fetchers,   \* module-level tileFetcher of tile-handler.ts and terrain.ts
    sourceAnswers,  \* the answers the tile source may give to a request
    fn,         \* library function under call: "idle" | "input" | its name
    args,       \* the arguments of the call
    result      \* the value returned

traceVars == <<grid, level, tracePc, lines, polys>>

clipVars == <<clipCfg, clipIn, clipPc, clipOut>>

handlerVars == <<workload, rq, cache, pendingPuts, fetchers, sourceAnswers>>

callVars == <<fn, args, result>>

vars == <<grid, level, tracePc, lines, polys, clipCfg, clipIn, clipPc, clipOut,
          workload, rq, cache, pendingPuts, fetchers, sourceAnswers,
          fn, args, result>>

\* a component that takes no part in a behaviour rests in its idle state
TraceIdle ==
    /\ grid = [width |-> 0, height |-> 0, data |-> <<>>]
    /\ level = 0
    /\ tracePc = "idle"
    /\ lines = <<>>
    /\ polys = <<>>

ClipIdle ==
    /\ clipCfg = [bufferPx |-> 0, tileSizePx |-> <<>>, mvtExtent |-> <<>>]
    /\ clipIn = <<>>
    /\ clipPc = "idle"
    /\ clipOut = <<>>

CallIdle ==
    /\ fn = "idle"
    /\ args = <<>>
    /\ result = <<>>

\* a call returns
Returns(name, value) ==
    /\ fn' = name
    /\ result' = value
    /\ UNCHANGED args
    /\ UNCHANGED <<traceVars, clipVars, handlerVars>>

NoFetcher == [url |-> <<>>, generation |-> 0]

HandlerIdle ==
    /\ workload = <<>>
    /\ rq = <<>>
    /\ cache = {}
    /\ pendingPuts = {}
    /\ fetchers = [handler |-> NoFetcher, terrain |-> NoFetcher]
    /\ sourceAnswers = {}

-----------------------------------------------------------------------------
(* Bounds of the tracer inputs *)

MaxCells == 6       \* all W x H grids with W,H >= 2 and W*H <= MaxCells
MaxBinaryCells == 9 \* the same over the two values {0, 1}
MaxRingDim == 6     \* concentric n x n grids for 5 <= n <= MaxRingDim

Values == {0, 2, 4}         \* grid values 0, 1 and 2 (units of 1/2)
BinaryValues == {0, 2}      \* the values of the 16 test cases
Levels == {1, 2, 3, 4}      \* levels 0.5, 1, 1.5 and 2 (units of 1/2)

-----------------------------------------------------------------------------
(* Generic helpers *)

Min(a, b) == IF a < b THEN a ELSE b
Max(a, b) == IF a > b THEN a ELSE b
Abs(a) == IF a < 0 THEN -a ELSE a

RECURSIVE GCD(_, _)
GCD(a, b) == IF b = 0 THEN a ELSE GCD(b, a % b)

LCM(a, b) == (a * b) \div GCD(a, b)

RECURSIVE LCMUpTo(_)
LCMUpTo(n) == IF n <= 1 THEN 1 ELSE LCM(n, LCMUpTo(n - 1))

MaxOfSet(S) == CHOOSE m \in S : \A s \in S : s <= m

\* Every interpolation ratio (level - v1) / (v2 - v1) of the bounded inputs
\* is a multiple of 1 / Scale.
Scale == 2 * LCMUpTo(MaxOfSet(Values))

Reverse(s) == [i \in 1..Len(s) |-> s[Len(s) + 1 - i]]

RECURSIVE Concat(_)
Concat(ss) == IF ss = <<>> THEN <<>> ELSE Head(ss) \o Concat(Tail(ss))

\* index of the first occurrence of v in s, 0 when absent (Array.indexOf + 1)
RECURSIVE IndexOfFrom(_, _, _)
IndexOfFrom(s, v, i) ==
    IF i > Len(s) THEN 0
    ELSE IF s[i] = v THEN i
    ELSE IndexOfFrom(s, v, i + 1)

RemoveAt(s, i) == SubSeq(s, 1, i - 1) \o SubSeq(s, i + 1, Len(s))

-----------------------------------------------------------------------------
(* Exact arithmetic on q/Scale + e*EPSILON *)

NLess(a, b) == a[1] < b[1] \/ (a[1] = b[1] /\ a[2] < b[2])
NSub(a, b) == <<a[1] - b[1], a[2] - b[2]>>
NAdd(a, b) == <<a[1] + b[1], a[2] + b[2]>>
NMul(a, b) == <<a[1] * b[1], a[1] * b[2] + a[2] * b[1], a[2] * b[2]>>

PZero == <<0, 0, 0>>
PAdd(a, b) == <<a[1] + b[1], a[2] + b[2], a[3] + b[3]>>
PNeg(a) == <<-a[1], -a[2], -a[3]>>
PLess(a, b) ==
    \/ a[1] < b[1]
    \/ a[1] = b[1] /\ a[2] < b[2]
    \/ a[1] = b[1] /\ a[2] = b[2] /\ a[3] < b[3]
PAbs(a) == IF PLess(a, PZero) THEN PNeg(a) ELSE a

-----------------------------------------------------------------------------
(* Marching Squares: src/lib/dem/contour.ts *)

gridGetAt(g, index) == g.data[index + 1]

\* interpolate(): t = |v2-v1| < EPSILON ? 0.5 : (level-v1)/(v2-v1), clamped to
\* [EPSILON, 1-EPSILON]; the point is (x1 + t*(x2-x1), y1 + t*(y2-y1)).
interpolateT(v1, v2, lvl) ==
    IF v2 = v1 THEN <<Scale \div 2, 0>>
    ELSE IF (lvl - v1) * (v2 - v1) <= 0 THEN <<0, 1>>
    ELSE IF (lvl - v1) * (v2 - v1) >= (v2 - v1) * (v2 - v1) THEN <<Scale, -1>>
    ELSE <<((lvl - v1) * Scale) \div (v2 - v1), 0>>

interpolate(g, lvl, x1, y1, x2, y2) ==
    LET v1 == gridGetAt(g, y1 * g.width + x1)
        v2 == gridGetAt(g, y2 * g.width + x2)
        t == interpolateT(v1, v2, lvl)
    IN  << <<x1 * Scale + t[1] * (x2 - x1), t[2] * (x2 - x1)>>,
           <<y1 * Scale + t[1] * (y2 - y1), t[2] * (y2 - y1)>> >>

Corner(x, y) == << <<x * Scale, 0>>, <<y * Scale, 0>> >>

Opt(cond, seg) == IF cond THEN <<seg>> ELSE <<>>

\* the case index with the weights of the two bottom corners exchanged
caseIndexSwapped(g, lvl, x, y) ==
    LET tlv == gridGetAt(g, y * g.width + x)
        trv == gridGetAt(g, y * g.width + (x + 1))
        brv == gridGetAt(g, (y + 1) * g.width + (x + 1))
        blv == gridGetAt(g, (y + 1) * g.width + x)
    IN  (IF tlv >= lvl THEN 1 ELSE 0) + (IF trv >= lvl THEN 2 ELSE 0)
        + (IF brv >= lvl THEN 8 ELSE 0) + (IF blv >= lvl THEN 4 ELSE 0)

caseIndexOf(g, lvl, x, y) ==
    LET tlv == gridGetAt(g, y * g.width + x)
        trv == gridGetAt(g, y * g.width + (x + 1))
        brv == gridGetAt(g, (y + 1) * g.width + (x + 1))
        blv == gridGetAt(g, (y + 1) * g.width + x)
    IN  (IF tlv >= lvl THEN 1 ELSE 0) + (IF trv >= lvl THEN 2 ELSE 0)
        + (IF brv >= lvl THEN 4 ELSE 0) + (IF blv >= lvl THEN 8 ELSE 0)

\* boundary flags of polygon mode
atTopMissing(g, y, forPolygons) == forPolygons /\ y = g.height - 1

atTopOf(g, y, forPolygons) == forPolygons /\ y = g.height - 2
atRightMissing(g, x, forPolygons) == forPolygons /\ x = g.width - 1
atRightOf(g, x, forPolygons) == forPolygons /\ x = g.width - 2
atBottomOf(y, forPolygons) == forPolygons /\ y = 0
atLeftOf(x, forPolygons) == forPolygons /\ x = 0

processCellMarching(g, lvl, x, y, forPolygons) ==
    LET atTop == atTopOf(g, y, forPolygons)
        atRight == atRightOf(g, x, forPolygons)
        atBottom == atBottomOf(y, forPolygons)
        atLeft == atLeftOf(x, forPolygons)
        tl == Corner(x, y + 1)
        tr == Corner(x + 1, y + 1)
        br == Corner(x + 1, y)
        bl == Corner(x, y)
        tm == interpolate(g, lvl, x, y + 1, x + 1, y + 1)
        rm == interpolate(g, lvl, x + 1, y, x + 1, y + 1)
        bm == interpolate(g, lvl, x, y, x + 1, y)
        lm == interpolate(g, lvl, x, y, x, y + 1)
        caseIndex == caseIndexOf(g, lvl, x, y)
    IN  CASE caseIndex = 0 -> <<>>
          [] caseIndex = 1 ->
                << <<lm, bm>> >> \o Opt(atBottom, <<bm, bl>>) \o Opt(atLeft, <<bl, lm>>)
          [] caseIndex = 2 ->
                << <<bm, rm>> >> \o Opt(atRight, <<rm, br>>) \o Opt(atBottom, <<br, bm>>)
          [] caseIndex = 3 ->
                << <<lm, rm>> >> \o Opt(atRight, <<rm, br>>) \o Opt(atBottom, <<br, bl>>)
                \o Opt(atLeft, <<bl, lm>>)
          [] caseIndex = 4 ->
                << <<rm, tm>> >> \o Opt(atTop, <<tm, tr>>) \o Opt(atRight, <<tr, rm>>)
          [] caseIndex = 5 ->
                << <<lm, tm>> >> \o Opt(atTop, <<tm, tr>>) \o Opt(atRight, <<tr, rm>>)
                \o << <<rm, bm>> >> \o Opt(atBottom, <<bm, bl>>) \o Opt(atLeft, <<bl, lm>>)
          [] caseIndex = 6 ->
                << <<bm, tm>> >> \o Opt(atTop, <<tm, tr>>) \o Opt(atRight, <<tr, br>>)
                \o Opt(atBottom, <<br, bm>>)
          [] caseIndex = 7 ->
                << <<lm, tm>> >> \o Opt(atTop, <<tm, tr>>) \o Opt(atRight, <<tr, br>>)
                \o Opt(atBottom, <<br, bl>>) \o Opt(atLeft, <<bl, lm>>)
          [] caseIndex = 8 ->
                << <<tm, lm>> >> \o Opt(atLeft, <<lm, tl>>) \o Opt(atTop, <<tl, tm>>)
          [] caseIndex = 9 ->
                << <<tm, bm>> >> \o Opt(atBottom, <<bm, bl>>) \o Opt(atLeft, <<bl, tl>>)
                \o Opt(atTop, <<tl, tm>>)
          [] caseIndex = 10 ->
                << <<bm, lm>> >> \o Opt(atLeft, <<lm, tl>>) \o Opt(atTop, <<tl, tm>>)
                \o << <<tm, rm>> >> \o Opt(atRight, <<rm, br>>) \o Opt(atBottom, <<br, bm>>)
          [] caseIndex = 11 ->
                << <<tm, rm>> >> \o Opt(atRight, <<rm, br>>) \o Opt(atBottom, <<br, bl>>)
                \o Opt(atLeft, <<bl, tl>>) \o Opt(atTop, <<tl, tm>>)
          [] caseIndex = 12 ->
                << <<rm, lm>> >> \o Opt(atLeft, <<lm, tl>>) \o Opt(atTop, <<tl, tr>>)
                \o Opt(atRight, <<tr, rm>>)
          [] caseIndex = 13 ->
                << <<rm, bm>> >> \o Opt(atBottom, <<bm, bl>>) \o Opt(atLeft, <<bl, tl>>)
                \o Opt(atTop, <<tl, tr>>) \o Opt(atRight, <<tr, rm>>)
          [] caseIndex = 14 ->
                << <<bm, lm>> >> \o Opt(atLeft, <<lm, tl>>) \o Opt(atTop, <<tl, tr>>)
                \o Opt(atRight, <<tr, br>>) \o Opt(atBottom, <<br, bm>>)
          [] OTHER ->
                Opt(atTop, <<tl, tr>>) \o Opt(atRight, <<tr, br>>)
                \o Opt(atBottom, <<br, bl>>) \o Opt(atLeft, <<bl, tl>>)

\* cells in the order of the nested loops: y outer, x inner
collectSegments(g, lvl, forPolygons) ==
    LET nx == g.width - 1
        ny == g.height - 1
    IN  Concat([c \in 1..(nx * ny) |->
            processCellMarching(g, lvl, (c - 1) % nx, (c - 1) \div nx, forPolygons)])

-----------------------------------------------------------------------------
(* Segment merging: src/lib/dem/contour.ts *)

\* Math.round(v * 1e6) for v = q/Scale + e*EPSILON (round half up)
roundMicro(n) ==
    LET num == 2 * n[1] * 1000000 + Scale
        den == 2 * Scale
        base == num \div den
    IN  IF num % den = 0 /\ n[2] < 0 THEN base - 1 ELSE base

\* coordKey(): the string `${x},${y}` of the two rounded integers
coordKey(coord) == <<roundMicro(coord[1]), roundMicro(coord[2])>>

addToIndex(index, key, c) == [index EXCEPT ![key] = Append(@, c)]

removeFromIndex(index, key, c) ==
    LET idx == IndexOfFrom(index[key], c, 1)
    IN  IF idx > 0 THEN [index EXCEPT ![key] = RemoveAt(@, idx)] ELSE index

\* first element of a candidate list that is neither the chain itself nor merged
RECURSIVE firstCandidate(_, _, _, _)
firstCandidate(list, chains, i, k) ==
    IF k > Len(list) THEN 0
    ELSE IF list[k] = i \/ chains[list[k]].merged THEN firstCandidate(list, chains, i, k + 1)
    ELSE list[k]

\* the four merge branches of extendChain; j is the chosen `other`
\* the append branch keeping the junction point of the other chain
appendOtherWithJunction(ms, i, j) ==
    LET chain == ms.chains[i]
        other == ms.chains[j]
        bs1 == removeFromIndex(ms.byStart, other.startKey, j)
        be1 == removeFromIndex(ms.byEnd, other.endKey, j)
        be2 == removeFromIndex(be1, chain.endKey, i)
    IN  [chains |-> [ms.chains EXCEPT
                        ![i] = [@ EXCEPT !.coords = chain.coords \o other.coords,
                                         !.endKey = other.endKey],
                        ![j] = [@ EXCEPT !.merged = TRUE]],
         byStart |-> bs1,
         byEnd |-> addToIndex(be2, other.endKey, i)]

appendOther(ms, i, j) ==
    LET chain == ms.chains[i]
        other == ms.chains[j]
        bs1 == removeFromIndex(ms.byStart, other.startKey, j)
        be1 == removeFromIndex(ms.byEnd, other.endKey, j)
        be2 == removeFromIndex(be1, chain.endKey, i)
    IN  [chains |-> [ms.chains EXCEPT
                        ![i] = [@ EXCEPT !.coords = chain.coords \o Tail(other.coords),
                                         !.endKey = other.endKey],
                        ![j] = [@ EXCEPT !.merged = TRUE]],
         byStart |-> bs1,
         byEnd |-> addToIndex(be2, other.endKey, i)]

appendReversedOther(ms, i, j) ==
    LET chain == ms.chains[i]
        other == ms.chains[j]
        bs1 == removeFromIndex(ms.byStart, other.startKey, j)
        be1 == removeFromIndex(ms.byEnd, other.endKey, j)
        be2 == removeFromIndex(be1, chain.endKey, i)
    IN  [chains |-> [ms.chains EXCEPT
                        ![i] = [@ EXCEPT !.coords = chain.coords \o Tail(Reverse(other.coords)),
                                         !.endKey = other.startKey],
                        ![j] = [@ EXCEPT !.merged = TRUE]],
         byStart |-> bs1,
         byEnd |-> addToIndex(be2, other.startKey, i)]

prependOther(ms, i, j) ==
    LET chain == ms.chains[i]
        other == ms.chains[j]
        bs1 == removeFromIndex(ms.byStart, other.startKey, j)
        be1 == removeFromIndex(ms.byEnd, other.endKey, j)
        bs2 == removeFromIndex(bs1, chain.startKey, i)
    IN  [chains |-> [ms.chains EXCEPT
                        ![i] = [@ EXCEPT !.coords = SubSeq(other.coords, 1, Len(other.coords) - 1)
                                                        \o chain.coords,
                                         !.startKey = other.startKey],
                        ![j] = [@ EXCEPT !.merged = TRUE]],
         byStart |-> addToIndex(bs2, other.startKey, i),
         byEnd |-> be1]

prependReversedOther(ms, i, j) ==
    LET chain == ms.chains[i]
        other == ms.chains[j]
        bs1 == removeFromIndex(ms.byStart, other.startKey, j)
        be1 == removeFromIndex(ms.byEnd, other.endKey, j)
        bs2 == removeFromIndex(bs1, chain.startKey, i)
        reversed == SubSeq(Reverse(other.coords), 1, Len(other.coords) - 1)
    IN  [chains |-> [ms.chains EXCEPT
                        ![i] = [@ EXCEPT !.coords = reversed \o chain.coords,
                                         !.startKey = other.endKey],
                        ![j] = [@ EXCEPT !.merged = TRUE]],
         byStart |-> addToIndex(bs2, other.endKey, i),
         byEnd |-> be1]

\* the while loop of extendChain without its two reversing branches
extendStepForward(ms, i) ==
    LET chain == ms.chains[i]
        c1 == firstCandidate(ms.byStart[chain.endKey], ms.chains, i, 1)
        c3 == firstCandidate(ms.byEnd[chain.startKey], ms.chains, i, 1)
    IN  IF c1 # 0 THEN [changed |-> TRUE, ms |-> appendOther(ms, i, c1)]
        ELSE IF c3 # 0 THEN [changed |-> TRUE, ms |-> prependOther(ms, i, c3)]
        ELSE [changed |-> FALSE, ms |-> ms]

\* one iteration of the while loop of extendChain; `changed` tells whether
\* a merge happened
extendStep(ms, i) ==
    LET chain == ms.chains[i]
        c1 == firstCandidate(ms.byStart[chain.endKey], ms.chains, i, 1)
        c2 == firstCandidate(ms.byEnd[chain.endKey], ms.chains, i, 1)
        c3 == firstCandidate(ms.byEnd[chain.startKey], ms.chains, i, 1)
        c4 == firstCandidate(ms.byStart[chain.startKey], ms.chains, i, 1)
    IN  IF c1 # 0 THEN [changed |-> TRUE, ms |-> appendOther(ms, i, c1)]
        ELSE IF c2 # 0 THEN [changed |-> TRUE, ms |-> appendReversedOther(ms, i, c2)]
        ELSE IF c3 # 0 THEN [changed |-> TRUE, ms |-> prependOther(ms, i, c3)]
        ELSE IF c4 # 0 THEN [changed |-> TRUE, ms |-> prependReversedOther(ms, i, c4)]
        ELSE [changed |-> FALSE, ms |-> ms]

RECURSIVE extendChain(_, _)
extendChain(ms, i) ==
    LET r == extendStep(ms, i)
    IN  IF r.changed THEN extendChain(r.ms, i) ELSE ms

\* the chains and the two indexes mergeSegments builds before its main loop
initialChains(segments) ==
    [s \in 1..Len(segments) |->
        [coords |-> segments[s],
         startKey |-> coordKey(segments[s][1]),
         endKey |-> coordKey(segments[s][Len(segments[s])]),
         merged |-> FALSE]]

RECURSIVE buildIndex(_, _, _, _)
buildIndex(chains, keys, useStart, n) ==
    IF n = 0 THEN [k \in keys |-> <<>>]
    ELSE addToIndex(buildIndex(chains, keys, useStart, n - 1),
                    IF useStart THEN chains[n].startKey ELSE chains[n].endKey, n)

initialMergeState(segments) ==
    LET chains == initialChains(segments)
        keys == {chains[s].startKey : s \in 1..Len(chains)}
                    \cup {chains[s].endKey : s \in 1..Len(chains)}
    IN  [chains |-> chains,
         byStart |-> buildIndex(chains, keys, TRUE, Len(chains)),
         byEnd |-> buildIndex(chains, keys, FALSE, Len(chains))]

RECURSIVE mergeLoop(_, _)
mergeLoop(ms, i) ==
    IF i > Len(ms.chains) THEN ms
    ELSE IF ms.chains[i].merged THEN mergeLoop(ms, i + 1)
    ELSE mergeLoop(extendChain(ms, i), i + 1)

RECURSIVE unmergedCoords(_, _)
unmergedCoords(chains, i) ==
    IF i > Len(chains) THEN <<>>
    ELSE IF chains[i].merged THEN unmergedCoords(chains, i + 1)
    ELSE <<chains[i].coords>> \o unmergedCoords(chains, i + 1)

mergeSegments(segments) ==
    IF Len(segments) = 0 THEN <<>>
    ELSE unmergedCoords(mergeLoop(initialMergeState(segments), 1).chains, 1)

\* traceLines() for one level: LineString features with a `level` property
traceLines(g, lvl) ==
    LET merged == mergeSegments(collectSegments(g, lvl, FALSE))
    IN  [n \in 1..Len(merged) |-> [coords |-> merged[n], level |-> lvl]]

-----------------------------------------------------------------------------
(* Polygon construction with hole detection: src/lib/dem/contour.ts *)

\* |a - b| < EPSILON on both components
coordsEqual(a, b) ==
    /\ a[1][1] = b[1][1] /\ Abs(a[1][2] - b[1][2]) < 1
    /\ a[2][1] = b[2][1] /\ Abs(a[2][2] - b[2][2]) < 1

closeRing(coords) ==
    IF ~coordsEqual(coords[1], coords[Len(coords)]) THEN Append(coords, coords[1])
    ELSE coords

\* shoelace sum; the value is twice the signed area (the code halves it,
\* which does not change any comparison)
RECURSIVE ringAreaFrom(_, _)
ringAreaFrom(ring, i) ==
    IF i > Len(ring) THEN PZero
    ELSE LET j == IF i = 1 THEN Len(ring) ELSE i - 1
         IN  PAdd(NMul(NSub(ring[j][1], ring[i][1]), NAdd(ring[j][2], ring[i][2])),
                  ringAreaFrom(ring, i + 1))

ringArea(ring) == ringAreaFrom(ring, 1)

\* ray casting: px < ((xj - xi) * (py - yi)) / (yj - yi) + xi, decided exactly
edgeCrossesRay(point, pi, pj) ==
    LET px == point[1]
        py == point[2]
        d == NSub(pj[2], pi[2])
        lhs == NMul(NSub(px, pi[1]), d)
        rhs == NMul(NSub(pj[1], pi[1]), NSub(py, pi[2]))
    IN  /\ NLess(py, pi[2]) # NLess(py, pj[2])
        /\ IF NLess(<<0, 0>>, d) THEN PLess(lhs, rhs) ELSE PLess(rhs, lhs)

RECURSIVE pointInRingFrom(_, _, _)
pointInRingFrom(point, ring, i) ==
    IF i > Len(ring) THEN FALSE
    ELSE LET j == IF i = 1 THEN Len(ring) ELSE i - 1
             rest == pointInRingFrom(point, ring, i + 1)
         IN  IF edgeCrossesRay(point, ring[i], ring[j]) THEN ~rest ELSE rest

pointInRing(point, ring) == pointInRingFrom(point, ring, 1)

\* the containment test without the check against the holes already assigned
isInsideShellOnly(point, shell, existingHoles) == pointInRing(point, shell)

isInsidePolygon(point, shell, existingHoles) ==
    /\ pointInRing(point, shell)
    /\ \A h \in 1..Len(existingHoles) : ~pointInRing(point, existingHoles[h])

\* the rings buildPolygonsWithHoles keeps: closed, at least 4 positions,
\* last position forced to the first
RECURSIVE candidateRings(_, _)
candidateRings(lns, n) ==
    IF n > Len(lns) THEN <<>>
    ELSE LET ring == closeRing(lns[n])
             fixed == [ring EXCEPT ![Len(ring)] = ring[1]]
         IN  IF Len(ring) < 4 THEN candidateRings(lns, n + 1)
             ELSE <<[ring |-> fixed, area |-> PAbs(ringArea(fixed))]>>
                    \o candidateRings(lns, n + 1)

\* stable sort by decreasing area (Array.prototype.sort is stable)
RECURSIVE insertByArea(_, _)
insertByArea(sorted, p) ==
    IF sorted = <<>> THEN <<p>>
    ELSE IF PLess(Head(sorted).area, p.area) THEN <<p>> \o sorted
    ELSE <<Head(sorted)>> \o insertByArea(Tail(sorted), p)

RECURSIVE sortByArea(_, _)
sortByArea(ps, n) ==
    IF n = 0 THEN <<>> ELSE insertByArea(sortByArea(ps, n - 1), ps[n])

\* inner loop over j: the holes of shell i and the set of used indexes
RECURSIVE collectHoles(_, _, _, _, _)
collectHoles(ps, i, j, holes, used) ==
    IF j > Len(ps) THEN [holes |-> holes, used |-> used]
    ELSE IF j \in used THEN collectHoles(ps, i, j + 1, holes, used)
    ELSE IF isInsidePolygon(ps[j].ring[1], ps[i].ring, holes)
         THEN collectHoles(ps, i, j + 1, Append(holes, ps[j].ring), used \cup {j})
         ELSE collectHoles(ps, i, j + 1, holes, used)

RECURSIVE assignHoles(_, _, _, _)
assignHoles(ps, i, used, lvl) ==
    IF i > Len(ps) THEN <<>>
    ELSE IF i \in used THEN assignHoles(ps, i + 1, used, lvl)
    ELSE LET r == collectHoles(ps, i, i + 1, <<>>, used)
         IN  <<[rings |-> <<ps[i].ring>> \o r.holes, level |-> lvl]>>
                \o assignHoles(ps, i + 1, r.used \cup {i}, lvl)

buildPolygonsWithHoles(lns, lvl) ==
    LET cands == candidateRings(lns, 1)
        sorted == sortByArea(cands, Len(cands))
    IN  assignHoles(sorted, 1, {}, lvl)

\* the merged polylines of polygon mode, before polygon assembly
polygonLines(g, lvl) == mergeSegments(collectSegments(g, lvl, TRUE))

\* tracePolygons() for one level: Polygon features with a `level` property
tracePolygons(g, lvl) == buildPolygonsWithHoles(polygonLines(g, lvl), lvl)

-----------------------------------------------------------------------------
(* Tracer: inputs and operations *)

Shapes(maxCells) == {wh \in (2..maxCells) \X (2..maxCells) : wh[1] * wh[2] <= maxCells}

GridsOver(vals, maxCells) ==
    UNION {{[width |-> wh[1], height |-> wh[2], data |-> d] :
                d \in [1..(wh[1] * wh[2]) -> vals]} : wh \in Shapes(maxCells)}

\* 3 x 3 grids around a centre holding the middle value
CentreGrids ==
    {[width |-> 3, height |-> 3, data |-> [c \in 1..9 |-> IF c = 5 THEN 2 ELSE d[c]]] :
        d \in [1..9 -> {0, 4}]}

\* n x n grids whose value depends only on the distance to the border
ringIndex(n, c) ==
    LET x == (c - 1) % n
        y == (c - 1) \div n
    IN  Min(Min(x, y), Min(n - 1 - x, n - 1 - y))

ConcentricGrids ==
    UNION {{[width |-> n, height |-> n,
             data |-> [c \in 1..(n * n) |-> rv[ringIndex(n, c) + 1]]] :
                rv \in [1..((n + 1) \div 2) -> Values]} : n \in 5..MaxRingDim}

TraceGrids ==
    GridsOver(Values, MaxCells) \cup GridsOver(BinaryValues, MaxBinaryCells)
        \cup CentreGrids \cup ConcentricGrids

InitTrace ==
    /\ grid \in TraceGrids
    /\ level \in Levels
    /\ tracePc = "input"
    /\ lines = <<>>
    /\ polys = <<>>
    /\ ClipIdle
    /\ HandlerIdle
    /\ CallIdle

TraceLines ==
    /\ tracePc = "input"
    /\ lines' = traceLines(grid, level)
    /\ tracePc' = "lines"
    /\ UNCHANGED <<grid, level, polys>>
    /\ UNCHANGED clipVars
    /\ UNCHANGED handlerVars
    /\ UNCHANGED callVars

TracePolygons ==
    /\ tracePc = "input"
    /\ lines' = [n \in 1..Len(polygonLines(grid, level)) |->
                    [coords |-> polygonLines(grid, level)[n], level |-> level]]
    /\ polys' = tracePolygons(grid, level)
    /\ tracePc' = "polygons"
    /\ UNCHANGED <<grid, level>>
    /\ UNCHANGED clipVars
    /\ UNCHANGED handlerVars
    /\ UNCHANGED callVars

NextTrace == TraceLines \/ TracePolygons

SpecTrace == InitTrace /\ [][NextTrace]_vars

-----------------------------------------------------------------------------
(* Claims about the tracer *)

\* Appendix A of the specification on the unit cell: edge midpoints at t = 1/2
\* (lm, tm, rm, bm), written independently of the tracer
AppLm == << <<0, 0>>, <<Scale \div 2, 0>> >>
AppTm == << <<Scale \div 2, 0>>, <<Scale, 0>> >>
AppRm == << <<Scale, 0>>, <<Scale \div 2, 0>> >>
AppBm == << <<Scale \div 2, 0>>, <<0, 0>> >>

AppendixA ==
    [c \in 0..15 |->
        CASE c = 1 -> {<<AppLm, AppBm>>}
          [] c = 2 -> {<<AppBm, AppRm>>}
          [] c = 3 -> {<<AppLm, AppRm>>}
          [] c = 4 -> {<<AppRm, AppTm>>}
          [] c = 5 -> {<<AppLm, AppTm>>, <<AppRm, AppBm>>}
          [] c = 6 -> {<<AppBm, AppTm>>}
          [] c = 7 -> {<<AppLm, AppTm>>}
          [] c = 8 -> {<<AppTm, AppLm>>}
          [] c = 9 -> {<<AppTm, AppBm>>}
          [] c = 10 -> {<<AppBm, AppLm>>, <<AppTm, AppRm>>}
          [] c = 11 -> {<<AppTm, AppRm>>}
          [] c = 12 -> {<<AppRm, AppLm>>}
          [] c = 13 -> {<<AppRm, AppBm>>}
          [] c = 14 -> {<<AppBm, AppLm>>}
          [] OTHER -> {}]

\* the corner configuration of a 2x2 grid [TL, TR, BL, BR] at level 0.5
CornerBits(d) ==
    (IF d[1] >= 1 THEN 1 ELSE 0) + (IF d[2] >= 1 THEN 2 ELSE 0)
    + (IF d[4] >= 1 THEN 4 ELSE 0) + (IF d[3] >= 1 THEN 8 ELSE 0)

SingleCellCase ==
    /\ tracePc = "lines"
    /\ grid.width = 2 /\ grid.height = 2
    /\ level = 1
    /\ \A i \in 1..4 : grid.data[i] \in {0, 2}

\* C1: on a single cell with values 0/1 and level 0.5, traceLines returns
\* exactly the oriented segments of the Appendix A table: none for cases 0 and
\* 15, two separate two-point lines for cases 5 and 10, one two-point line for
\* every other case.
C1_AppendixATable ==
    SingleCellCase =>
        /\ {lines[n].coords : n \in 1..Len(lines)} = AppendixA[CornerBits(grid.data)]
        /\ Len(lines) = Cardinality(AppendixA[CornerBits(grid.data)])
        /\ \A n \in 1..Len(lines) : Len(lines[n].coords) = 2 /\ lines[n].level = level

C1_Witness ==
    /\ SingleCellCase
    /\ CornerBits(grid.data) = 10
    /\ Len(lines) = 2

\* C2: in polygon mode every merged polyline is closed on its own: its first
\* and its last point have the same quantized key.
C2_PolylinesClosed ==
    tracePc = "polygons" =>
        \A n \in 1..Len(lines) :
            coordKey(lines[n].coords[1])
                = coordKey(lines[n].coords[Len(lines[n].coords)])

\* a 3x3 grid whose band touches the top row and needs more than one ring
C2_Witness ==
    /\ tracePc = "polygons"
    /\ grid.width = 3 /\ grid.height = 3
    /\ \E i \in 7..9 : grid.data[i] >= level
    /\ Len(lines) >= 2
    /\ \E n \in 1..Len(lines) : Len(lines[n].coords) >= 6

\* Point-in-ring for the claims, independent of the tracer's ray casting:
\* parity of the ring edges crossed by the vertical ray going up from p
EdgeAbove(p, a, b) ==
    LET d == NSub(b[1], a[1])
        lhs == NMul(NSub(p[2], a[2]), d)
        rhs == NMul(NSub(b[2], a[2]), NSub(p[1], a[1]))
    IN  /\ NLess(p[1], a[1]) # NLess(p[1], b[1])
        /\ IF NLess(<<0, 0>>, d) THEN PLess(lhs, rhs) ELSE PLess(rhs, lhs)

InsideRing(p, ring) ==
    Cardinality({i \in 1..(Len(ring) - 1) : EdgeAbove(p, ring[i], ring[i + 1])}) % 2 = 1

NLeq(a, b) == ~NLess(b, a)

OnSegment(p, a, b) ==
    /\ NMul(NSub(b[1], a[1]), NSub(p[2], a[2])) = NMul(NSub(b[2], a[2]), NSub(p[1], a[1]))
    /\ (NLeq(a[1], p[1]) /\ NLeq(p[1], b[1])) \/ (NLeq(b[1], p[1]) /\ NLeq(p[1], a[1]))
    /\ (NLeq(a[2], p[2]) /\ NLeq(p[2], b[2])) \/ (NLeq(b[2], p[2]) /\ NLeq(p[2], a[2]))

OnRing(p, ring) == \E i \in 1..(Len(ring) - 1) : OnSegment(p, ring[i], ring[i + 1])

StrictlyInside(p, ring) == InsideRing(p, ring) /\ ~OnRing(p, ring)

\* Sample points are in units of EPSILON / 4 so that they avoid every traced
\* vertex: around every half-cell lattice point, four points inside and four
\* points outside the EPSILON diamond of the clamped interpolation points.
Fine(ring) == [i \in 1..Len(ring) |-> << <<ring[i][1][1], 4 * ring[i][1][2]>>,
                                         <<ring[i][2][1], 4 * ring[i][2][2]>> >>]

FineOffsets == {<<1, 2>>, <<-1, 2>>, <<1, -2>>, <<-1, -2>>,
                <<3, 2>>, <<-3, 2>>, <<3, -2>>, <<-3, -2>>}

HalfSteps(n) == {k * (Scale \div 2) : k \in 0..(2 * (n - 1))}

Samples(g) ==
    {<< <<qx, o[1]>>, <<qy, o[2]>> >> :
        qx \in HalfSteps(g.width), qy \in HalfSteps(g.height), o \in FineOffsets}

InPolygon(p, rings) ==
    /\ InsideRing(p, rings[1])
    /\ \A h \in 2..Len(rings) : ~InsideRing(p, rings[h])

\* C3: the polygons of one level have pairwise disjoint interiors (no sample
\* point lies in two of them), and every vertex of a hole lies strictly inside
\* the shell of its polygon and not strictly inside another hole of it.
C3_DisjointNested ==
    tracePc = "polygons" =>
        LET fine == [n \in 1..Len(polys) |->
                        [h \in 1..Len(polys[n].rings) |-> Fine(polys[n].rings[h])]]
        IN  /\ \A p \in Samples(grid) :
                Cardinality({n \in 1..Len(polys) : InPolygon(p, fine[n])}) <= 1
            /\ \A n \in 1..Len(polys) : \A h \in 2..Len(polys[n].rings) :
                \A v \in 1..Len(polys[n].rings[h]) :
                    /\ StrictlyInside(polys[n].rings[h][v], polys[n].rings[1])
                    /\ \A h2 \in 2..Len(polys[n].rings) :
                        h2 # h => ~StrictlyInside(polys[n].rings[h][v], polys[n].rings[h2])

\* an island inside a lake inside a band: a polygon with a hole and a second
\* polygon lying inside that hole
C3_Witness ==
    /\ tracePc = "polygons"
    /\ \E n, m \in 1..Len(polys) :
        /\ n # m
        /\ Len(polys[n].rings) >= 2
        /\ StrictlyInside(polys[m].rings[1][1], polys[n].rings[2])

-----------------------------------------------------------------------------
(* Coordinate transform and clipping: lib/tiles/coordinate-transform        *)
(*                                                                         *)
(* Clip coordinates are exact rationals <<n, d>> with d > 0 in lowest      *)
(* terms; a position is a pair of them.                                    *)

TILE_SIZE == 256
MVT_EXTENT == 4096
BUFFER_PX == 8

RNorm(n, d) ==
    LET g == GCD(Abs(n), Abs(d))
    IN  IF d < 0 THEN <<(-n) \div g, (-d) \div g>> ELSE <<n \div g, d \div g>>

RInt(i) == <<i, 1>>
RNeg(a) == <<-a[1], a[2]>>

RAdd(a, b) ==
    LET g == GCD(a[2], b[2])
    IN  RNorm(a[1] * (b[2] \div g) + b[1] * (a[2] \div g), (a[2] \div g) * b[2])

RSub(a, b) == RAdd(a, RNeg(b))

RMul(a, b) ==
    LET g1 == GCD(Abs(a[1]), b[2])
        g2 == GCD(Abs(b[1]), a[2])
    IN  RNorm((a[1] \div g1) * (b[1] \div g2), (a[2] \div g2) * (b[2] \div g1))

RDiv(a, b) == RMul(a, IF b[1] < 0 THEN <<-b[2], -b[1]>> ELSE <<b[2], b[1]>>)

RLess(a, b) ==
    LET g == GCD(a[2], b[2])
    IN  a[1] * (b[2] \div g) < b[1] * (a[2] \div g)

RLeq(a, b) == ~RLess(b, a)

\* an optional field is <<>> when undefined and <<v>> when set
Default(opt, dflt) == IF opt = <<>> THEN dflt ELSE opt[1]

\* createTransform(config)(coord)
createTransform(config, coord) ==
    LET bufferPx == RInt(config.bufferPx)
        tileSizePx == Default(config.tileSizePx, TILE_SIZE)
        mvtExtent == Default(config.mvtExtent, MVT_EXTENT)
        scale == RDiv(RInt(mvtExtent), RInt(tileSizePx))
    IN  <<RMul(RSub(coord[1], bufferPx), scale),
          RMul(RSub(coord[2], bufferPx), scale)>>

mapTransform(coords, config) ==
    [i \in 1..Len(coords) |-> createTransform(config, coords[i])]

isInsideEdgeStrict(p, edge, edgeValue) ==
    CASE edge = "left" -> RLess(edgeValue, p[1])
      [] edge = "right" -> RLess(p[1], edgeValue)
      [] edge = "top" -> RLess(edgeValue, p[2])
      [] edge = "bottom" -> RLess(p[2], edgeValue)

isInsideEdge(p, edge, edgeValue) ==
    CASE edge = "left" -> RLeq(edgeValue, p[1])
      [] edge = "right" -> RLeq(p[1], edgeValue)
      [] edge = "top" -> RLeq(edgeValue, p[2])
      [] edge = "bottom" -> RLeq(p[2], edgeValue)

computeEdgeIntersection(p1, p2, edge, edgeValue) ==
    LET dx == RSub(p2[1], p1[1])
        dy == RSub(p2[2], p1[2])
    IN  IF edge \in {"left", "right"}
        THEN <<edgeValue, RAdd(p1[2], RMul(RDiv(RSub(edgeValue, p1[1]), dx), dy))>>
        ELSE <<RAdd(p1[1], RMul(RDiv(RSub(edgeValue, p1[2]), dy), dx)), edgeValue>>

findViolatedEdge(p, minX, minY, maxX) ==
    IF RLess(p[1], minX) THEN "left"
    ELSE IF RLess(maxX, p[1]) THEN "right"
    ELSE IF RLess(p[2], minY) THEN "top"
    ELSE "bottom"

\* const inside = (p) => ... of clipLineToBox
inside(p, minX, minY, maxX, maxY) ==
    /\ RLeq(minX, p[1])
    /\ RLeq(p[1], maxX)
    /\ RLeq(minY, p[2])
    /\ RLeq(p[2], maxY)

edgeValueOf(edge, minX, minY, maxX, maxY) ==
    IF edge = "left" THEN minX
    ELSE IF edge = "right" THEN maxX
    ELSE IF edge = "top" THEN minY
    ELSE maxY

\* one iteration of the loop of clipLineToBox on the pair (p1, p2)
clipLineStep(st, p1, p2, minX, minY, maxX, maxY) ==
    LET p1Inside == inside(p1, minX, minY, maxX, maxY)
        p2Inside == inside(p2, minX, minY, maxX, maxY)
        started == IF st.currentSegment = <<>> THEN <<p1>> ELSE st.currentSegment
        exitEdge == findViolatedEdge(p2, minX, minY, maxX)
        entryEdge == findViolatedEdge(p1, minX, minY, maxX)
        exitPoint == computeEdgeIntersection(p1, p2, exitEdge,
                        edgeValueOf(exitEdge, minX, minY, maxX, maxY))
        entryPoint == computeEdgeIntersection(p1, p2, entryEdge,
                        edgeValueOf(entryEdge, minX, minY, maxX, maxY))
    IN  IF p1Inside /\ p2Inside
        THEN [result |-> st.result, currentSegment |-> Append(started, p2)]
        ELSE IF p1Inside /\ ~p2Inside
        THEN [result |-> IF Len(started) + 1 >= 2
                         THEN Append(st.result, Append(started, exitPoint))
                         ELSE st.result,
              currentSegment |-> <<>>]
        ELSE IF ~p1Inside /\ p2Inside
        THEN [result |-> st.result, currentSegment |-> <<entryPoint, p2>>]
        ELSE st

RECURSIVE clipLineLoop(_, _, _, _, _, _, _)
clipLineLoop(st, coords, i, minX, minY, maxX, maxY) ==
    IF i > Len(coords) - 1 THEN st
    ELSE clipLineLoop(clipLineStep(st, coords[i], coords[i + 1], minX, minY, maxX, maxY),
                      coords, i + 1, minX, minY, maxX, maxY)

clipLineToBox(coords, minX, minY, maxX, maxY) ==
    IF Len(coords) < 2 THEN <<>>
    ELSE LET st == clipLineLoop([result |-> <<>>, currentSegment |-> <<>>],
                                coords, 1, minX, minY, maxX, maxY)
         IN  IF Len(st.currentSegment) >= 2
             THEN Append(st.result, st.currentSegment)
             ELSE st.result

RECURSIVE clipPolygonLoop(_, _, _, _)
clipPolygonLoop(ring, i, edge, edgeValue) ==
    IF i > Len(ring) THEN <<>>
    ELSE LET current == ring[i]
             previous == ring[((i - 1 + Len(ring) - 1) % Len(ring)) + 1]
             currentInside == isInsideEdge(current, edge, edgeValue)
             previousInside == isInsideEdge(previous, edge, edgeValue)
             crossing == computeEdgeIntersection(previous, current, edge, edgeValue)
             pushed == IF currentInside
                       THEN (IF ~previousInside THEN <<crossing>> ELSE <<>>) \o <<current>>
                       ELSE IF previousInside THEN <<crossing>>
                       ELSE <<>>
         IN  pushed \o clipPolygonLoop(ring, i + 1, edge, edgeValue)

clipPolygonAgainstEdge(ring, edge, edgeValue) ==
    IF Len(ring) = 0 THEN <<>> ELSE clipPolygonLoop(ring, 1, edge, edgeValue)

clipPolygonRingToBox(ring, minX, minY, maxX, maxY) ==
    clipPolygonAgainstEdge(
        clipPolygonAgainstEdge(
            clipPolygonAgainstEdge(
                clipPolygonAgainstEdge(ring, "left", minX),
                "right", maxX),
            "top", minY),
        "bottom", maxY)

\* GeoJSON properties: null, or an object given by its set of entries
NullProperties == [isNull |-> TRUE, entries |-> {}]
EmptyProperties == [isNull |-> FALSE, entries |-> {}]

\* feature.properties ?? {}
propertiesOrEmpty(props) == IF props.isNull THEN EmptyProperties ELSE props

\* lineString() and polygon() of @turf/helpers
lineString(coords, props) ==
    [type |-> "LineString", coordinates |-> coords, properties |-> props]

polygon(rings, props) ==
    [type |-> "Polygon", coordinates |-> rings, properties |-> props]

RECURSIVE clippedLineFeatures(_, _, _)
clippedLineFeatures(clipped, props, n) ==
    IF n > Len(clipped) THEN <<>>
    ELSE (IF Len(clipped[n]) >= 2 THEN <<lineString(clipped[n], props)>> ELSE <<>>)
            \o clippedLineFeatures(clipped, props, n + 1)

RECURSIVE transformAndClipFrom(_, _, _)
transformAndClipFrom(features, config, n) ==
    IF n > Len(features) THEN <<>>
    ELSE IF features[n].type # "LineString"
         THEN transformAndClipFrom(features, config, n + 1)
    ELSE LET mvtExtent == RInt(Default(config.mvtExtent, MVT_EXTENT))
             transformedCoords == mapTransform(features[n].coordinates, config)
             clipped == clipLineToBox(transformedCoords, RInt(0), RInt(0),
                                      mvtExtent, mvtExtent)
         IN  clippedLineFeatures(clipped, propertiesOrEmpty(features[n].properties), 1)
                \o transformAndClipFrom(features, config, n + 1)

transformAndClipFeatures(features, config) ==
    transformAndClipFrom(features, config, 1)

\* the closure step on a clipped ring that passed the size test
closeClippedRingNever(clippedRing) == clippedRing

closeClippedRing(clippedRing) ==
    IF clippedRing[1] # clippedRing[Len(clippedRing)]
    THEN Append(clippedRing, clippedRing[1])
    ELSE clippedRing

RECURSIVE transformedRings(_, _, _)
transformedRings(rings, config, n) ==
    IF n > Len(rings) THEN <<>>
    ELSE LET mvtExtent == RInt(Default(config.mvtExtent, MVT_EXTENT))
             transformedRing == mapTransform(rings[n], config)
             clippedRing == clipPolygonRingToBox(transformedRing, RInt(0), RInt(0),
                                                 mvtExtent, mvtExtent)
         IN  (IF Len(clippedRing) >= 4 THEN <<closeClippedRing(clippedRing)>> ELSE <<>>)
                \o transformedRings(rings, config, n + 1)

RECURSIVE transformAndClipPolygonFrom(_, _, _)
transformAndClipPolygonFrom(features, config, n) ==
    IF n > Len(features) THEN <<>>
    ELSE LET kept == transformedRings(features[n].coordinates, config, 1)
         IN  (IF Len(kept) > 0
              THEN <<polygon(kept, propertiesOrEmpty(features[n].properties))>>
              ELSE <<>>)
                \o transformAndClipPolygonFrom(features, config, n + 1)

transformAndClipPolygonFeatures(features, config) ==
    transformAndClipPolygonFrom(features, config, 1)

-----------------------------------------------------------------------------
(* Clip inputs *)

MaxLineLen == 3     \* polylines of 1..MaxLineLen vertices

\* the handler's configuration: { bufferPx: BUFFER_PX } with default tile
\* size and extent
ClipConfigs == {[bufferPx |-> BUFFER_PX, tileSizePx |-> <<>>, mvtExtent |-> <<>>]}

\* grid coordinates that the transform sends to -b*s, 0, E/2, E and E + b*s
LatticeOf(config) ==
    LET b == config.bufferPx
        t == Default(config.tileSizePx, TILE_SIZE)
    IN  {0, b, b + t \div 2, b + t, 2 * b + t}

LatticePoints(config) ==
    {<<RInt(x), RInt(y)>> : x \in LatticeOf(config), y \in LatticeOf(config)}

PropertyChoices ==
    {NullProperties, [isNull |-> FALSE, entries |-> {<<"level", 100>>}]}

\* the lattice without the far edge of the box
CoarsePoints(config) ==
    LET far == config.bufferPx + Default(config.tileSizePx, TILE_SIZE)
    IN  {p \in LatticePoints(config) : p[1][1] # far /\ p[2][1] # far}

\* single positions and segments over the lattice, longer polylines over
\* the coarse lattice
LineInputs(config) ==
    [1..1 -> LatticePoints(config)] \cup [1..2 -> LatticePoints(config)]
        \cup UNION {[1..n -> CoarsePoints(config)] : n \in 3..MaxLineLen}

\* twice the signed area of the triangle (a, b, c), in lattice units
Cross(a, b, c) ==
    (b[1][1] - a[1][1]) * (c[2][1] - a[2][1])
        - (b[2][1] - a[2][1]) * (c[1][1] - a[1][1])

InTriangle(p, a, b, c) ==
    \/ Cross(a, b, p) > 0 /\ Cross(b, c, p) > 0 /\ Cross(c, a, p) > 0
    \/ Cross(a, b, p) < 0 /\ Cross(b, c, p) < 0 /\ Cross(c, a, p) < 0

\* candidate holes: a triangle well inside the tile and one across its
\* left edge
HoleRings(config) ==
    LET b == config.bufferPx
        t == Default(config.tileSizePx, TILE_SIZE)
        P(x, y) == <<RInt(x), RInt(y)>>
        q == t \div 8
    IN  {<<P(b + q, b + 4 * q), P(b + 2 * q, b + 3 * q), P(b + 2 * q, b + 5 * q),
           P(b + q, b + 4 * q)>>,
         <<P(b - 2, b + 4 * q), P(b + q, b + 3 * q), P(b + q, b + 5 * q),
           P(b - 2, b + 4 * q)>>}

\* closed triangles over the lattice, alone or with one hole inside them
PolygonInputs(config) ==
    LET pts == LatticePoints(config)
        shells == {<<a, b, c, a>> : a \in pts, b \in pts, c \in pts}
        proper == {s \in shells : Cross(s[1], s[2], s[3]) # 0}
    IN  {<<s>> : s \in proper}
          \cup UNION {{<<s, h>> : h \in
                        {r \in HoleRings(config) :
                            \A i \in 1..3 : InTriangle(r[i], s[1], s[2], s[3])}} :
                      s \in proper}

ClipFeatures(config) ==
    {lineString(c, p) : c \in LineInputs(config), p \in PropertyChoices}
      \cup {polygon(r, p) : r \in PolygonInputs(config), p \in PropertyChoices}

InitClip ==
    /\ clipCfg \in ClipConfigs
    /\ clipIn \in {<<f>> : f \in ClipFeatures(clipCfg)}
    /\ clipPc = "input"
    /\ clipOut = <<>>
    /\ TraceIdle
    /\ HandlerIdle
    /\ CallIdle

TransformAndClipFeatures ==
    /\ clipPc = "input"
    /\ clipOut' = transformAndClipFeatures(clipIn, clipCfg)
    /\ clipPc' = "lines"
    /\ UNCHANGED <<clipCfg, clipIn>>
    /\ UNCHANGED traceVars
    /\ UNCHANGED handlerVars
    /\ UNCHANGED callVars

\* the parameter type is Feature<Polygon>[]
TransformAndClipPolygonFeatures ==
    /\ clipPc = "input"
    /\ \A n \in 1..Len(clipIn) : clipIn[n].type = "Polygon"
    /\ clipOut' = transformAndClipPolygonFeatures(clipIn, clipCfg)
    /\ clipPc' = "polygons"
    /\ UNCHANGED <<clipCfg, clipIn>>
    /\ UNCHANGED traceVars
    /\ UNCHANGED handlerVars
    /\ UNCHANGED callVars

NextClip == TransformAndClipFeatures \/ TransformAndClipPolygonFeatures

SpecClip == InitClip /\ [][NextClip]_vars

\* tracing and clipping side by side
InitGeom == InitTrace \/ InitClip

NextGeom == NextTrace \/ NextClip

SpecGeom == InitGeom /\ [][NextGeom]_vars

-----------------------------------------------------------------------------
(* Claims about clipping *)

RingValid(ring) == Len(ring) >= 4 /\ ring[1] = ring[Len(ring)]

ClipBoxMax == RInt(Default(clipCfg.mvtExtent, MVT_EXTENT))

InTileBox(p) == inside(p, RInt(0), RInt(0), ClipBoxMax, ClipBoxMax)

\* C4: every ring of every polygon returned by tracePolygons and by
\* transformAndClipPolygonFeatures has at least 4 positions, and its first
\* position is exactly equal to its last position.
C4_RingsValid ==
    /\ tracePc = "polygons" =>
          \A n \in 1..Len(polys) : \A r \in 1..Len(polys[n].rings) :
              RingValid(polys[n].rings[r])
    /\ clipPc = "polygons" =>
          \A n \in 1..Len(clipOut) : \A r \in 1..Len(clipOut[n].coordinates) :
              RingValid(clipOut[n].coordinates[r])

\* a clipped polygon whose shell left Sutherland-Hodgman open and was closed
\* by the closure step
C4_Witness ==
    /\ clipPc = "polygons"
    /\ Len(clipOut) = 1
    /\ LET shell == clipPolygonRingToBox(
                        mapTransform(clipIn[1].coordinates[1], clipCfg),
                        RInt(0), RInt(0), ClipBoxMax, ClipBoxMax)
       IN  /\ Len(shell) >= 4
           /\ shell[1] # shell[Len(shell)]
           /\ clipOut[1].coordinates[1] = Append(shell, shell[1])

\* C5: every vertex of every LineString returned by transformAndClipFeatures
\* lies inside the tile box 0 <= x <= mvtExtent, 0 <= y <= mvtExtent, also
\* when the outside end point of a segment violates two box edges at once.
C5_VerticesInBox ==
    clipPc = "lines" =>
        \A n \in 1..Len(clipOut) : \A i \in 1..Len(clipOut[n].coordinates) :
            InTileBox(clipOut[n].coordinates[i])

\* the transformed coordinates of the single input feature all lie in the box
InputInsideBox ==
    /\ Len(clipIn) = 1
    /\ IF clipIn[1].type = "LineString"
       THEN \A i \in 1..Len(clipIn[1].coordinates) :
                InTileBox(createTransform(clipCfg, clipIn[1].coordinates[i]))
       ELSE \A r \in 1..Len(clipIn[1].coordinates) :
                \A i \in 1..Len(clipIn[1].coordinates[r]) :
                    InTileBox(createTransform(clipCfg, clipIn[1].coordinates[r][i]))

\* the input feature is well formed and was given to the function of its type
WellFormedCall ==
    \/ /\ clipPc = "lines"
       /\ clipIn[1].type = "LineString"
       /\ Len(clipIn[1].coordinates) >= 2
    \/ /\ clipPc = "polygons"
       /\ clipIn[1].type = "Polygon"
       /\ \A r \in 1..Len(clipIn[1].coordinates) : RingValid(clipIn[1].coordinates[r])

TransformedInput ==
    IF clipIn[1].type = "LineString"
    THEN mapTransform(clipIn[1].coordinates, clipCfg)
    ELSE [r \in 1..Len(clipIn[1].coordinates) |->
            mapTransform(clipIn[1].coordinates[r], clipCfg)]

-----------------------------------------------------------------------------
(* Tile requests: src/worker/tile-handler.ts, src/worker/routes/terrain.ts  *)
(*                                                                         *)
(* A text is a sequence of one-character strings.  An optional value is    *)
(* <<>> when undefined and <<v>> when set.                                 *)

CACHE_VERSION == "3"
DEFAULT_CACHE_TTL == 24 * 3600
DEFAULT_TILE_URL == <<"https://tiles.mapterhorn.com/", "{z}", "/", "{x}", "/", "{y}", ".webp">>

DigitChars == <<"0", "1", "2", "3", "4", "5", "6", "7", "8", "9">>

IsDigit(c) == \E d \in 1..10 : DigitChars[d] = c

DigitValue(c) == (CHOOSE d \in 1..10 : DigitChars[d] = c) - 1

RECURSIVE Pow2(_)
Pow2(n) == IF n = 0 THEN 1 ELSE 2 * Pow2(n - 1)

\* String(n) for an integer n
RECURSIVE numberToText(_)
numberToText(n) ==
    IF n < 0 THEN <<"-">> \o numberToText(-n)
    ELSE IF n < 10 THEN <<DigitChars[n + 1]>>
    ELSE Append(numberToText(n \div 10), DigitChars[(n % 10) + 1])

NaN == [nan |-> TRUE, value |-> 0]

RECURSIVE skipWhiteSpace(_)
skipWhiteSpace(text) ==
    IF text # <<>> /\ Head(text) = " " THEN skipWhiteSpace(Tail(text)) ELSE text

\* the value of the longest prefix of decimal digits, and its length
RECURSIVE digitPrefix(_, _, _)
digitPrefix(text, i, acc) ==
    IF i > Len(text) \/ ~IsDigit(text[i]) THEN [value |-> acc, length |-> i - 1]
    ELSE digitPrefix(text, i + 1, 10 * acc + DigitValue(text[i]))

\* parseInt(text, 10): leading white space, an optional sign, then the
\* longest run of decimal digits; whatever follows is ignored
parseInt(text) ==
    LET trimmed == skipWhiteSpace(text)
        signed == trimmed # <<>> /\ Head(trimmed) \in {"+", "-"}
        body == IF signed THEN Tail(trimmed) ELSE trimmed
        prefix == digitPrefix(body, 1, 0)
    IN  IF prefix.length = 0 THEN NaN
        ELSE [nan |-> FALSE,
              value |-> IF signed /\ Head(trimmed) = "-" THEN -prefix.value
                        ELSE prefix.value]

\* yParam.replace(/\.mvt$/i, '')
stripMvt(text) ==
    LET n == Len(text)
    IN  IF /\ n >= 4
           /\ text[n - 3] = "."
           /\ text[n - 2] \in {"m", "M"}
           /\ text[n - 1] \in {"v", "V"}
           /\ text[n] \in {"t", "T"}
        THEN SubSeq(text, 1, n - 4)
        ELSE text

\* parseTileCoords(): <<>> for null, <<[z, x, y]>> for a coordinate
parseTileCoords(params) ==
    LET z == parseInt(params.z)
        x == parseInt(params.x)
        y == parseInt(stripMvt(params.y))
    IN  IF z.nan \/ x.nan \/ y.nan \/ z.value < 0 \/ z.value > 22 THEN <<>>
        ELSE LET maxTile == Pow2(z.value) - 1
             IN  IF \/ x.value < 0
                    \/ x.value > maxTile
                    \/ y.value < 0
                    \/ y.value > maxTile
                 THEN <<>>
                 ELSE <<[z |-> z.value, x |-> x.value, y |-> y.value]>>

\* the handler of a kind lives in tile-handler.ts (contour, hillshade) or in
\* routes/terrain.ts
ModuleOf(kind) == IF kind = "terrain" THEN "terrain" ELSE "handler"

\* env.X !== 'false'
notFalseEver(opt) == TRUE

notFalse(opt) == opt # <<"false">>

cacheKeyNoPrefix(kind, coord) ==
    <<"https://cache/", CACHE_VERSION, "/">>
        \o numberToText(coord.z) \o <<"/">> \o numberToText(coord.x)
        \o <<"/">> \o numberToText(coord.y) \o <<".mvt">>

\* `https://cache/${CACHE_VERSION}/${cachePrefix}/${z}/${x}/${y}.mvt`
cacheKey(kind, coord) ==
    <<"https://cache/", CACHE_VERSION, "/", kind, "/">>
        \o numberToText(coord.z) \o <<"/">> \o numberToText(coord.x)
        \o <<"/">> \o numberToText(coord.y) \o <<".mvt">>

\* c.json({ error: ... }, status)
jsonResponse(status) ==
    [status |-> status, contentType |-> "application/json", contentEncoding |-> "",
     maxAge |-> 0, gzipBody |-> FALSE, content |-> <<>>]

NoResponse == jsonResponse(0)

\* getMvtHeaders(compressed, maxAge)
getMvtHeaders(compressed, maxAge) ==
    [contentType |-> "application/vnd.mapbox-vector-tile",
     maxAge |-> maxAge,
     contentEncoding |-> IF compressed THEN "gzip" ELSE ""]

\* encodeFeatures(): compress ? pako.gzip(buffer) : buffer
encodeFeatures(content, compress) == [gzip |-> compress, content |-> content]

\* parseInt(env.CACHE_TTL ?? '', 10) || DEFAULT_CACHE_TTL
cacheTTLOf(env) ==
    LET ttl == parseInt(IF env.CACHE_TTL = <<>> THEN <<>> ELSE env.CACHE_TTL[1])
    IN  IF ttl.nan \/ ttl.value = 0 THEN DEFAULT_CACHE_TTL ELSE ttl.value

-----------------------------------------------------------------------------
(* Source tile fetcher: lib/tiles/fetcher *)

Center == <<0, 0>>
Cardinals == <<<<-1, 0>>, <<1, 0>>, <<0, -1>>, <<0, 1>>>>      \* left, right, top, bottom
Corners == <<<<-1, -1>>, <<1, -1>>, <<-1, 1>>, <<1, 1>>>>
Offsets == {<<dx, dy>> : dx \in {-1, 0, 1}, dy \in {-1, 0, 1}}

\* urlTemplate.replace(token, text): the first occurrence only
replaceFirst(template, token, text) ==
    LET at == IndexOfFrom(template, token, 1)
    IN  IF at = 0 THEN template
        ELSE SubSeq(template, 1, at - 1) \o text \o SubSeq(template, at + 1, Len(template))

buildUrl(urlTemplate, z, x, y) ==
    replaceFirst(
        replaceFirst(
            replaceFirst(urlTemplate, "{z}", numberToText(z)),
            "{x}", numberToText(x)),
        "{y}", numberToText(y))

\* a fetcher that is created once and never replaced
getTileFetcherOnce(f, env) ==
    LET url == IF env.DEM_TILE_URL = <<>> THEN DEFAULT_TILE_URL ELSE env.DEM_TILE_URL[1]
    IN  IF f.url = <<>>
        THEN [url |-> <<url>>, generation |-> f.generation + 1]
        ELSE f

\* getTileFetcher(env) on the module-level fetcher f
getTileFetcher(f, env) ==
    LET url == IF env.DEM_TILE_URL = <<>> THEN DEFAULT_TILE_URL ELSE env.DEM_TILE_URL[1]
    IN  IF f.url = <<>> \/ f.url[1] # url
        THEN [url |-> <<url>>, generation |-> f.generation + 1]
        ELSE f

\* fetchTilePixels() up to its first await: null when the tile is out of
\* range, otherwise the HTTP request is issued
fetchTilePixels(s, o) ==
    LET z == s.coord[1].z
        x == s.coord[1].x + o[1]
        y == s.coord[1].y + o[2]
        maxTile == Pow2(z)
    IN  IF x < 0 \/ x >= maxTile \/ y < 0 \/ y >= maxTile
        THEN [s EXCEPT !.tiles[o] = "null"]
        ELSE [s EXCEPT !.tiles[o] = "pending",
                       !.log.requests = Append(@, buildUrl(s.fetcher.url[1], z, x, y))]

\* Promise.all([...]): the calls of one batch are started in order
RECURSIVE startBatch(_, _, _)
startBatch(s, batch, n) ==
    IF n > Len(batch) THEN s
    ELSE startBatch(fetchTilePixels(s, batch[n]), batch, n + 1)

\* fetch3x3Neighborhood(): when nothing of the current batch is in flight,
\* the next batch starts; after the corners the neighbourhood is complete
RECURSIVE fetch3x3Neighborhood(_)
fetch3x3Neighborhood(s) ==
    IF \E o \in Offsets : s.tiles[o] = "pending" THEN s
    ELSE IF s.pc = "center"
         THEN fetch3x3Neighborhood(startBatch([s EXCEPT !.pc = "cardinals"], Cardinals, 1))
    ELSE IF s.pc = "cardinals"
         THEN fetch3x3Neighborhood(startBatch([s EXCEPT !.pc = "corners"], Corners, 1))
    ELSE [s EXCEPT !.pc = "fetched"]

\* all nine requests of the neighbourhood issued at once
fetchTileAllAtOnce(s, coord, fetcher, bufferPx) ==
    LET t == [s EXCEPT !.pc = IF bufferPx = 0 THEN "single" ELSE "corners",
                       !.coord = <<coord>>, !.fetcher = fetcher]
    IN  IF bufferPx = 0 THEN fetchTilePixels(t, Center)
        ELSE startBatch(startBatch(fetchTilePixels(t, Center), Cardinals, 1), Corners, 1)

\* fetchTile(coord, bufferPx) up to the first await: the request of the tile
\* itself, alone when bufferPx is 0 and as batch 1 otherwise
fetchTile(s, coord, fetcher, bufferPx) ==
    fetchTilePixels([s EXCEPT !.pc = IF bufferPx = 0 THEN "single" ELSE "center",
                              !.coord = <<coord>>, !.fetcher = fetcher],
                    Center)

\* fetchTile() at its await: on the single tile, or on the neighbourhood
awaitTiles(s) ==
    IF s.pc = "single"
    THEN IF s.tiles[Center] = "pending" THEN s ELSE [s EXCEPT !.pc = "fetched"]
    ELSE fetch3x3Neighborhood(s)

\* sampleElevationGrid(center, outputSize, 0): the grid of the tile alone
sampleElevationGrid(s, bufferPx) ==
    [width |-> TILE_SIZE + 2 * bufferPx,
     height |-> TILE_SIZE + 2 * bufferPx,
     tiles |-> {Center}]

\* sampleFromStitched(): the grid always has the full buffered size
sampleFromStitched(s, bufferPx) ==
    [width |-> TILE_SIZE + 2 * bufferPx,
     height |-> TILE_SIZE + 2 * bufferPx,
     tiles |-> {o \in Offsets : s.tiles[o] = "pixels"}]

-----------------------------------------------------------------------------
(* The handler, from one await to the next *)

NewRequest ==
    [pc |-> "new", coord |-> <<>>, fetcher |-> NoFetcher,
     tiles |-> [o \in Offsets |-> "none"], grid |-> <<>>, resp |-> NoResponse,
     log |-> [lookups |-> 0, requests |-> <<>>, puts |-> 0, hit |-> FALSE]]

\* catch (error): status 500
failed(s) == [s EXCEPT !.pc = "done", !.resp = jsonResponse(500)]

\* a tile whose bytes depend on the moment it is produced
tileResponseDated(r, s, buffered) ==
    LET compress == notFalse(r.env.COMPRESSION_ENABLED)
        mvtData == encodeFeatures(<<r.kind, s.coord[1], s.fetcher.url[1], buffered.tiles,
                                    Cardinality(pendingPuts)>>, compress)
        headers == getMvtHeaders(compress, cacheTTLOf(r.env))
    IN  [status |-> 200, contentType |-> headers.contentType,
         contentEncoding |-> headers.contentEncoding, maxAge |-> headers.maxAge,
         gzipBody |-> mvtData.gzip, content |-> mvtData.content]

\* the tile of a request: layers of its kind, computed from the fetched grid
tileResponse(r, s, buffered) ==
    LET compress == notFalse(r.env.COMPRESSION_ENABLED)
        mvtData == encodeFeatures(<<r.kind, s.coord[1], s.fetcher.url[1], buffered.tiles>>,
                                  compress)
        headers == getMvtHeaders(compress, cacheTTLOf(r.env))
    IN  [status |-> 200, contentType |-> headers.contentType,
         contentEncoding |-> headers.contentEncoding, maxAge |-> headers.maxAge,
         gzipBody |-> mvtData.gzip, content |-> mvtData.content]

\* the handler of request i runs on from local state s to its next await:
\* it waits for source tiles, or fetchTile has thrown, or the tile is built,
\* handed to the cache and returned
Continue(i, s) ==
    IF s.pc # "fetched"
    THEN /\ rq' = [rq EXCEPT ![i] = s]
         /\ UNCHANGED pendingPuts
    ELSE IF s.tiles[Center] # "pixels"
    THEN /\ rq' = [rq EXCEPT ![i] = failed(s)]
         /\ UNCHANGED pendingPuts
    ELSE LET r == workload[i]
             buffered == sampleFromStitched(s, BUFFER_PX)
             response == tileResponse(r, s, buffered)
             cacheEnabled == notFalse(r.env.CACHE_ENABLED)
         IN  /\ rq' = [rq EXCEPT ![i] =
                        [s EXCEPT !.pc = "done", !.grid = <<buffered>>, !.resp = response,
                                  !.log.puts = IF cacheEnabled THEN @ + 1 ELSE @]]
             /\ pendingPuts' =
                    IF cacheEnabled
                    THEN pendingPuts \cup
                            {[key |-> cacheKey(r.kind, s.coord[1]), response |-> response,
                              under |-> <<CACHE_VERSION, r.kind, s.coord[1]>>, by |-> i]}
                    ELSE pendingPuts

\* getTileFetcher() and fetchTile(coord, BUFFER_PX) of request i
StartFetch(i, s, coord) ==
    LET m == ModuleOf(workload[i].kind)
        fetcher == getTileFetcher(fetchers[m], workload[i].env)
    IN  /\ fetchers' = [fetchers EXCEPT ![m] = fetcher]
        /\ Continue(i, awaitTiles(fetchTile(s, coord, fetcher, BUFFER_PX)))

\* a source tile request of request i is answered
FetchAnswered(i, o, answer) ==
    /\ rq[i].tiles[o] = "pending"
    /\ answer \in sourceAnswers
    /\ IF answer \in {"reject", "corrupt"}
       THEN /\ rq' = [rq EXCEPT ![i] = failed([rq[i] EXCEPT !.tiles[o] = "threw"])]
            /\ UNCHANGED pendingPuts
       ELSE Continue(i, awaitTiles(
                [rq[i] EXCEPT !.tiles[o] = IF answer = "ok" THEN "pixels" ELSE "null"]))
    /\ UNCHANGED <<workload, cache, fetchers, sourceAnswers>>

\* the handler from its entry to the first await
Handle(i) ==
    /\ rq[i].pc = "new"
    /\ LET r == workload[i]
           coord == parseTileCoords(r.params)
       IN  IF coord = <<>>
           THEN /\ rq' = [rq EXCEPT ![i] =
                            [rq[i] EXCEPT !.pc = "done", !.resp = jsonResponse(400)]]
                /\ UNCHANGED <<pendingPuts, fetchers>>
           ELSE IF notFalse(r.env.CACHE_ENABLED)
           THEN /\ rq' = [rq EXCEPT ![i] =
                            [rq[i] EXCEPT !.pc = "match", !.coord = coord,
                                          !.log.lookups = @ + 1]]
                /\ UNCHANGED <<pendingPuts, fetchers>>
           ELSE StartFetch(i, rq[i], coord[1])
    /\ UNCHANGED <<workload, cache, sourceAnswers>>
    /\ UNCHANGED <<traceVars, clipVars, callVars>>

\* await cache.match(cacheKey) returns
CacheMatch(i) ==
    /\ rq[i].pc = "match"
    /\ LET key == cacheKey(workload[i].kind, rq[i].coord[1])
           hits == {e \in cache : e.key = key}
       IN  IF hits # {}
           THEN /\ rq' = [rq EXCEPT ![i] =
                            [rq[i] EXCEPT !.pc = "done",
                                          !.resp = (CHOOSE e \in hits : TRUE).response,
                                          !.log.hit = TRUE]]
                /\ UNCHANGED <<pendingPuts, fetchers>>
           ELSE StartFetch(i, rq[i], rq[i].coord[1])
    /\ UNCHANGED <<workload, cache, sourceAnswers>>
    /\ UNCHANGED <<traceVars, clipVars, callVars>>

\* batch 1: the center tile is answered
CenterFetched(i, answer) ==
    /\ rq[i].pc = "center"
    /\ FetchAnswered(i, Center, answer)
    /\ UNCHANGED <<traceVars, clipVars, callVars>>

\* batch 2: one of the cardinal neighbours is answered
CardinalFetched(i, n, answer) ==
    /\ rq[i].pc = "cardinals"
    /\ FetchAnswered(i, Cardinals[n], answer)
    /\ UNCHANGED <<traceVars, clipVars, callVars>>

\* batch 3: one of the corner neighbours is answered
CornerFetched(i, n, answer) ==
    /\ rq[i].pc = "corners"
    /\ FetchAnswered(i, Corners[n], answer)
    /\ UNCHANGED <<traceVars, clipVars, callVars>>

\* a cache.put() handed to waitUntil lands: it replaces the entry of its key
CachePut(p) ==
    /\ p \in pendingPuts
    /\ cache' = {e \in cache : e.key # p.key}
                    \cup {[key |-> p.key, response |-> p.response, under |-> p.under]}
    /\ pendingPuts' = pendingPuts \ {p}
    /\ UNCHANGED <<workload, rq, fetchers, sourceAnswers>>
    /\ UNCHANGED <<traceVars, clipVars, callVars>>

\* the cache drops an entry (expiry or eviction)
CacheEvict(e) ==
    /\ e \in cache
    /\ cache' = cache \ {e}
    /\ UNCHANGED <<workload, rq, pendingPuts, fetchers, sourceAnswers>>
    /\ UNCHANGED <<traceVars, clipVars, callVars>>

Answers == {"ok", "notOk", "reject", "corrupt"}

NextHandler ==
    \/ \E i \in 1..Len(workload) : Handle(i)
    \/ \E i \in 1..Len(workload) : CacheMatch(i)
    \/ \E i \in 1..Len(workload), answer \in Answers : CenterFetched(i, answer)
    \/ \E i \in 1..Len(workload), n \in 1..4, answer \in Answers :
            CardinalFetched(i, n, answer)
    \/ \E i \in 1..Len(workload), n \in 1..4, answer \in Answers :
            CornerFetched(i, n, answer)
    \/ \E p \in pendingPuts : CachePut(p)
    \/ \E e \in cache : CacheEvict(e)

-----------------------------------------------------------------------------
(* Workloads *)

MaxRequests == 2    \* requests of one cache workload

Kinds == {"contour", "hillshade", "terrain"}

Unset == <<>>

DefaultEnv ==
    [CACHE_ENABLED |-> Unset, COMPRESSION_ENABLED |-> Unset,
     DEM_TILE_URL |-> Unset, CACHE_TTL |-> Unset]

MvtSuffix == <<".", "m", "v", "t">>

ZTexts ==
    {<<"0">>, <<"1">>, <<"2">>, <<"2", "2">>, <<"2", "3">>, <<"-", "1">>,
     <<>>, <<"a">>, <<"1", ".", "5">>, <<"2", "a">>}

XTexts ==
    {<<"0">>, <<"1">>, <<"3">>, <<"4">>, <<"-", "1">>, <<>>, <<"1", "a">>,
     <<"4", "1", "9", "4", "3", "0", "3">>, <<"4", "1", "9", "4", "3", "0", "4">>}

YTexts == XTexts \cup {x \o MvtSuffix : x \in XTexts} \cup {<<"0", ".", "M", "V", "T">>}

Request(kind, z, x, y, env) ==
    [kind |-> kind, params |-> [z |-> z, x |-> x, y |-> y], env |-> env]

\* one request with arbitrary path parameters, the source answering
ParseWorkloads ==
    {<<Request(k, z, x, y, e)>> :
        k \in Kinds, z \in ZTexts, x \in XTexts, y \in YTexts,
        e \in {DefaultEnv, [DefaultEnv EXCEPT !.CACHE_ENABLED = <<"false">>]}}

\* one request for the world tile, a corner tile or an interior tile, the
\* source answering each tile request in any way
FetchWorkloads ==
    {<<Request(k, t[1], t[2], t[3], e)>> :
        k \in {"contour", "terrain"},
        t \in {<<<<"0">>, <<"0">>, <<"0">>>>, <<<<"1">>, <<"0">>, <<"0">>>>,
               <<<<"2">>, <<"1">>, <<"1">> \o MvtSuffix>>},
        e \in {DefaultEnv, [DefaultEnv EXCEPT !.CACHE_ENABLED = <<"false">>]}}

\* up to MaxRequests requests for two tiles, with and without cache and
\* compression
CacheRequests ==
    {Request(k, t[1], t[2], t[3],
             [DefaultEnv EXCEPT !.CACHE_ENABLED = ce, !.COMPRESSION_ENABLED = co]) :
        k \in {"contour", "terrain"},
        t \in {<<<<"0">>, <<"0">>, <<"0">> \o MvtSuffix>>, <<<<"1">>, <<"1">>, <<"1">>>>},
        ce \in {Unset, <<"false">>}, co \in {Unset, <<"false">>}}

CacheWorkloads == UNION {[1..n -> CacheRequests] : n \in 1..MaxRequests}

InitHandler(workloads, answers) ==
    /\ workload \in workloads
    /\ rq = [i \in 1..Len(workload) |-> NewRequest]
    /\ cache = {}
    /\ pendingPuts = {}
    /\ fetchers = [handler |-> NoFetcher, terrain |-> NoFetcher]
    /\ sourceAnswers = answers
    /\ TraceIdle
    /\ ClipIdle
    /\ CallIdle

InitParse == InitHandler(ParseWorkloads, {"ok"})

InitFetch == InitHandler(FetchWorkloads, Answers)

InitCache == InitHandler(CacheWorkloads, {"ok"})

SpecParse == InitParse /\ [][NextHandler]_vars

SpecFetch == InitFetch /\ [][NextHandler]_vars

SpecCache == InitCache /\ [][NextHandler]_vars

MaxWriteRequests == 2   \* requests of one workload of cache writes

\* requests for tile 1/0/0 with the cache enabled, by either handler, and
\* with the cache disabled, and a request with an invalid zoom
WriteRequests ==
    {Request(k, <<"1">>, <<"0">>, <<"0">>, DefaultEnv) : k \in {"contour", "terrain"}}
        \cup {Request("contour", <<"1">>, <<"0">>, <<"0">>,
                      [DefaultEnv EXCEPT !.CACHE_ENABLED = <<"false">>]),
              Request("contour", <<"a">>, <<"0">>, <<"0">>, DefaultEnv)}

WriteWorkloads == UNION {[1..n -> WriteRequests] : n \in 1..MaxWriteRequests}

\* the source answers or cannot be reached
InitWrite == InitHandler(WriteWorkloads, {"ok", "reject"})

SpecWrite == InitWrite /\ [][NextHandler]_vars

MaxUrlRequests == 2     \* requests of one workload with varying DEM_TILE_URL

\* a second source of tiles
MirrorUrl == <<"https://mirror.example/", "{z}", "/", "{x}", "/", "{y}", ".png">>

\* DEM_TILE_URL unset, set to the default URL, or set to another URL
UrlChoices == {Unset, <<DEFAULT_TILE_URL>>, <<MirrorUrl>>}

\* requests for tile 1/0/0, which has three neighbours in range: contour
\* requests with each choice of URL and a terrain request, whose module has
\* a fetcher of its own
UrlRequests ==
    {Request("contour", <<"1">>, <<"0">>, <<"0">>, [DefaultEnv EXCEPT !.DEM_TILE_URL = u]) :
        u \in UrlChoices}
        \cup {Request("terrain", <<"1">>, <<"0">>, <<"0">>,
                      [DefaultEnv EXCEPT !.DEM_TILE_URL = <<MirrorUrl>>])}

UrlWorkloads == UNION {[1..n -> UrlRequests] : n \in 1..MaxUrlRequests}

InitUrl == InitHandler(UrlWorkloads, {"ok"})

SpecUrl == InitUrl /\ [][NextHandler]_vars

-----------------------------------------------------------------------------
(* Calls of TileFetcher.fetchTile(coord, bufferPx) *)

BufferSizes == {0, 4, BUFFER_PX}

\* the world tile, edge tiles, an interior tile and coordinates out of range
TileCoords ==
    {[z |-> 0, x |-> 0, y |-> 0], [z |-> 1, x |-> 0, y |-> 0], [z |-> 1, x |-> 1, y |-> 1],
     [z |-> 2, x |-> 1, y |-> 1], [z |-> 2, x |-> 2, y |-> 3], [z |-> 2, x |-> 4, y |-> 1],
     [z |-> 1, x |-> -1, y |-> 0]}

\* new TileFetcher(urlTemplate)
DirectFetcher == [url |-> <<DEFAULT_TILE_URL>>, generation |-> 1]

\* fetchTile() after its await: it throws without the pixels of the tile
\* itself and returns the sampled grid otherwise
fetchTileSettled(s, bufferPx) ==
    IF s.pc # "fetched" THEN s
    ELSE IF s.tiles[Center] # "pixels" THEN [s EXCEPT !.pc = "thrown"]
    ELSE [s EXCEPT !.pc = "returned",
                   !.grid = <<IF bufferPx = 0 THEN sampleElevationGrid(s, bufferPx)
                              ELSE sampleFromStitched(s, bufferPx)>>]

InitFetchTile ==
    /\ fn = "input"
    /\ args \in [coord : TileCoords, bufferPx : BufferSizes]
    /\ result = <<>>
    /\ TraceIdle
    /\ ClipIdle
    /\ HandlerIdle

\* the call, up to its first await
FetchTile ==
    /\ fn = "input"
    /\ Returns("fetchTile",
               fetchTileSettled(
                   awaitTiles(fetchTile(NewRequest, args.coord, DirectFetcher, args.bufferPx)),
                   args.bufferPx))

\* a source tile request of the call is answered
TilePixelsFetched(o, answer) ==
    /\ fn = "fetchTile"
    /\ result.pc \in {"single", "center", "cardinals", "corners"}
    /\ result.tiles[o] = "pending"
    /\ Returns("fetchTile",
               IF answer \in {"reject", "corrupt"}
               THEN [result EXCEPT !.tiles[o] = "threw", !.pc = "thrown"]
               ELSE fetchTileSettled(
                        awaitTiles([result EXCEPT !.tiles[o] =
                                        IF answer = "ok" THEN "pixels" ELSE "null"]),
                        args.bufferPx))

NextFetchTile ==
    \/ FetchTile
    \/ \E o \in Offsets, answer \in Answers : TilePixelsFetched(o, answer)

SpecFetchTile == InitFetchTile /\ [][NextFetchTile]_vars

-----------------------------------------------------------------------------
(* Claims about the request handler *)

\* a text that is a decimal integer: an optional minus sign and digits only
DenotesInteger(t) ==
    LET body == IF t # <<>> /\ Head(t) = "-" THEN Tail(t) ELSE t
    IN  body # <<>> /\ \A k \in 1..Len(body) : IsDigit(body[k])

RECURSIVE DigitsValue(_)
DigitsValue(body) ==
    IF body = <<>> THEN 0
    ELSE 10 * DigitsValue(SubSeq(body, 1, Len(body) - 1)) + DigitValue(body[Len(body)])

IntegerOf(t) ==
    IF Head(t) = "-" THEN -DigitsValue(Tail(t)) ELSE DigitsValue(t)

\* y without one trailing ".mvt", in either case
WithoutMvt(y) ==
    IF Len(y) >= 4 /\ SubSeq(y, Len(y) - 3, Len(y)) \in
            {MvtSuffix, <<".", "M", "V", "T">>}
    THEN SubSeq(y, 1, Len(y) - 4)
    ELSE y

\* z is an integer in [0,22] and x, y are integers in [0, 2^z)
ValidCoordinates(params) ==
    /\ DenotesInteger(params.z)
    /\ IntegerOf(params.z) \in 0..22
    /\ DenotesInteger(params.x)
    /\ IntegerOf(params.x) >= 0
    /\ IntegerOf(params.x) < Pow2(IntegerOf(params.z))
    /\ DenotesInteger(WithoutMvt(params.y))
    /\ IntegerOf(WithoutMvt(params.y)) >= 0
    /\ IntegerOf(WithoutMvt(params.y)) < Pow2(IntegerOf(params.z))

\* C7: a request whose z is not an integer in [0,22], or whose x or y is not
\* in [0, 2^z), is answered with 400 and causes no cache lookup, no source
\* tile request and no cache write; a request with valid coordinates (a
\* trailing ".mvt" of y stripped) is never answered with 400.
C7_InvalidRejected ==
    \A i \in 1..Len(workload) :
        rq[i].pc # "new" =>
            IF ValidCoordinates(workload[i].params)
            THEN rq[i].resp.status # 400
            ELSE /\ rq[i].pc = "done"
                 /\ rq[i].resp.status = 400
                 /\ rq[i].log.lookups = 0
                 /\ rq[i].log.requests = <<>>
                 /\ rq[i].log.puts = 0

RequestKey(i) == cacheKey(workload[i].kind, rq[i].coord[1])

\* the lookup of request i returns while the cache holds an entry for its key
LookupFinds(i) ==
    /\ rq[i].pc = "match"
    /\ rq'[i].pc # "match"
    /\ \E e \in cache : e.key = RequestKey(i)

\* C8: when the cache is enabled and holds an entry for the key of the
\* request, the handler returns that entry unchanged, requests no source tile
\* and writes nothing to the cache; the entry returned was stored under the
\* same (version, kind, z, x, y).
C8_CacheHitVerbatim ==
    [][\A i \in 1..Len(workload) :
          LookupFinds(i) =>
              LET e == CHOOSE e \in cache : e.key = RequestKey(i)
              IN  /\ notFalse(workload[i].env.CACHE_ENABLED)
                  /\ rq'[i].pc = "done"
                  /\ rq'[i].resp = e.response
                  /\ rq'[i].log.requests = <<>>
                  /\ rq'[i].log.puts = 0
                  /\ pendingPuts' = pendingPuts
                  /\ cache' = cache
                  /\ e.under = <<CACHE_VERSION, workload[i].kind, rq[i].coord[1]>>]_vars

\* a request served from the cache while the other kind and the other tile
\* have entries of their own
C8_Witness ==
    \E i \in 1..Len(workload) :
        /\ rq[i].pc = "done"
        /\ rq[i].log.hit
        /\ rq[i].resp.status = 200
        /\ rq[i].resp.content[1] = workload[i].kind
        /\ rq[i].log.requests = <<>>

\* fetchTile was called for request i and the request is answered
FetchTileReturned(i) == rq[i].pc = "done" /\ rq[i].fetcher # NoFetcher

\* C9: with bufferPx > 0 fetchTile fails, and the handler answers 500, if and
\* only if the center tile cannot be obtained; when it is obtained, any of
\* the 8 neighbours may be out of range or answer with a non-OK status and
\* fetchTile returns a grid of the full buffered size.
C9_FailsIffNoCenter ==
    \A i \in 1..Len(workload) :
        FetchTileReturned(i) =>
            /\ rq[i].resp.status = 500 <=> rq[i].tiles[Center] # "pixels"
            /\ rq[i].tiles[Center] = "pixels" =>
                  /\ rq[i].resp.status = 200
                  /\ rq[i].grid # <<>>
                  /\ rq[i].grid[1].width = TILE_SIZE + 2 * BUFFER_PX
                  /\ rq[i].grid[1].height = TILE_SIZE + 2 * BUFFER_PX

\* C10: after any earlier requests, every 200 response to a request handled
\* with COMPRESSION_ENABLED = 'false' has a raw body and no Content-Encoding
\* header, and every 200 response has Content-Encoding: gzip exactly when
\* its body is gzip-compressed.
C10_RawWhenDisabled ==
    \A i \in 1..Len(workload) :
        (rq[i].pc = "done" /\ rq[i].resp.status = 200) =>
            /\ workload[i].env.COMPRESSION_ENABLED = <<"false">> =>
                  /\ ~rq[i].resp.gzipBody
                  /\ rq[i].resp.contentEncoding = ""
            /\ rq[i].resp.contentEncoding = "gzip" <=> rq[i].resp.gzipBody

\* requests i and j ask for the same tile of the same kind
SameTile(i, j) ==
    /\ workload[i].kind = workload[j].kind
    /\ parseTileCoords(workload[i].params) # <<>>
    /\ parseTileCoords(workload[i].params) = parseTileCoords(workload[j].params)

\* two requests for one tile, the cache enabled, the source serving every
\* tile, and every request for that tile handled under the same environment
ConcurrentPair(i, j) ==
    /\ i # j
    /\ SameTile(i, j)
    /\ notFalse(workload[i].env.CACHE_ENABLED)
    /\ sourceAnswers = {"ok"}
    /\ \A k \in 1..Len(workload) : SameTile(i, k) => workload[k].env = workload[i].env

\* the handler of request i is not waiting for anything that cannot happen
CanProceed(i) ==
    rq[i].pc \in {"center", "cardinals", "corners"} =>
        \E o \in Offsets : rq[i].tiles[o] = "pending"

-----------------------------------------------------------------------------
(* Levels and feature properties: lib/tiles/types.ts, routes/contour,      *)
(* routes/terrain.ts                                                       *)

\* the zoom levels of a tile request
Zooms == 0..22

MIN_ELEVATION == -500
MAX_ELEVATION == 9000
MIN_LUMINANCE == 0
MAX_LUMINANCE == 256
DEFAULT_SUN_ALTITUDE == 45
DEFAULT_SUN_AZIMUTH == 315

getContourIntervalOff(zoom) ==
    IF zoom < 2 THEN 2000
    ELSE IF zoom < 7 THEN 1000
    ELSE IF zoom < 9 THEN 500
    ELSE IF zoom < 11 THEN 250
    ELSE IF zoom < 13 THEN 100
    ELSE IF zoom = 14 THEN 50
    ELSE 10

getContourInterval(zoom) ==
    IF zoom <= 2 THEN 2000
    ELSE IF zoom <= 7 THEN 1000
    ELSE IF zoom <= 9 THEN 500
    ELSE IF zoom <= 11 THEN 250
    ELSE IF zoom <= 13 THEN 100
    ELSE IF zoom = 14 THEN 50
    ELSE 10

getHillshadeInterval(zoom) ==
    IF zoom <= 7 THEN 32
    ELSE IF zoom <= 11 THEN 21
    ELSE 16

\* for (let level = min; level < max; level += interval) levels.push(level):
\* the loop runs once for every k >= 0 with min + k * interval < max
generateLevels(min, max, interval) ==
    LET count == IF max <= min THEN 0 ELSE ((max - min - 1) \div interval) + 1
    IN  [k \in 1..count |-> min + (k - 1) * interval]

\* a % b of JavaScript: the sign of the result is the sign of a
jsRem(a, b) == IF a >= 0 THEN a % b ELSE -((-a) % b)

\* the grid of one cell with the corner values data
cellGrid(data) == [width |-> 2, height |-> 2, data |-> data]

\* the number of lines traceLines() finds in a grid of one cell: none when
\* all corners are on one side of the level, two at a saddle, otherwise one
cellLineCount(data, lvl) ==
    LET case == caseIndexOf(cellGrid(data), lvl, 0, 0)
    IN  IF case \in {0, 15} THEN 0 ELSE IF case \in {5, 10} THEN 2 ELSE 1

\* traceLines(data, 2, 2, levels): one feature per line, level by level,
\* each with the property level (the geometry is left out); the features of
\* levels[lo..hi], the range halved to keep the evaluation shallow
RECURSIVE traceLinesOfCell(_, _, _, _)
traceLinesOfCell(data, levels, lo, hi) ==
    IF lo > hi THEN <<>>
    ELSE IF lo = hi
    THEN [k \in 1..cellLineCount(data, levels[lo]) |-> [level |-> levels[lo]]]
    ELSE traceLinesOfCell(data, levels, lo, (lo + hi) \div 2)
            \o traceLinesOfCell(data, levels, ((lo + hi) \div 2) + 1, hi)

\* processContours(grid, 2, 2, zoom)
processContours(data, zoom) ==
    LET interval == getContourInterval(zoom)
        levels == generateLevels(MIN_ELEVATION, MAX_ELEVATION, interval)
        contours == traceLinesOfCell(data, levels, 1, Len(levels))
    IN  [n \in 1..Len(contours) |->
            [level |-> contours[n].level,
             index |-> jsRem(contours[n].level, interval * 5) = 0]]

-----------------------------------------------------------------------------
(* Hillshade: lib/dem/hillshade, lib/dem/grid.ts                           *)
(*                                                                         *)
(* Elevations are integers (metres).  Luminance is held in thousandths,    *)
(* cosines and the sun vector in ten-thousandths; divisions truncate, so a *)
(* luminance is accurate to about 0.1.                                     *)

\* a / b truncated towards zero
quot(a, b) == IF (a >= 0) = (b > 0) THEN Abs(a) \div Abs(b) ELSE -(Abs(a) \div Abs(b))

\* Math.cos of an angle in degrees, a multiple of 30 or of 45
RECURSIVE cosDeg(_)
cosDeg(deg) ==
    LET a == deg % 360
    IN  IF a > 180 THEN cosDeg(360 - a)
        ELSE IF a > 90 THEN -cosDeg(180 - a)
        ELSE CASE a = 0 -> 10000
               [] a = 30 -> 8660
               [] a = 45 -> 7071
               [] a = 60 -> 5000
               [] a = 90 -> 0

sinDeg(deg) == cosDeg(deg + 270)

\* Math.sqrt, rounded down: the root of n in lo..hi
RECURSIVE sqrtIn(_, _, _)
sqrtIn(n, lo, hi) ==
    IF lo = hi THEN lo
    ELSE LET mid == (lo + hi + 1) \div 2
         IN  IF mid * mid <= n THEN sqrtIn(n, mid, hi) ELSE sqrtIn(n, lo, mid - 1)

sqrt(n) == sqrtIn(n, 0, 46340)

\* Math.round of a value in thousandths
round(milli) == (milli + 500) \div 1000

\* gridGet(): the coordinates are clamped to the grid
gridGetUnclamped(g, x, y) ==
    IF x < 0 \/ x > g.width - 1 \/ y < 0 \/ y > g.height - 1 THEN 0
    ELSE g.data[y * g.width + x + 1]

gridGet(g, x, y) ==
    LET clampedX == Max(0, Min(g.width - 1, x))
        clampedY == Max(0, Min(g.height - 1, y))
    IN  g.data[clampedY * g.width + clampedX + 1]

\* getResolution(zoom) = 2 * PI * EARTH_RADIUS / (256 * 2^zoom), as the
\* fraction <<metres, 2^zoom>> with 2 * PI * 6378137 / 256 = 156543.03
getResolution(zoom) == <<156543, Pow2(zoom)>>

\* gradMagSq < FLAT_THRESHOLD_SQ (1e-10) for the gradient (A / Q, B / Q),
\* Q being at most 4.6e7
belowFlatThreshold(A, B, Q) ==
    \/ A = 0 /\ B = 0
    \/ /\ Abs(A) <= 300
       /\ Abs(B) <= 300
       /\ (A * A + B * B) * 10000 < (Q \div 1000) * (Q \div 1000)

\* computePixelHillshadeFast(): gradientScale is the fraction <<p, q>>
computePixelHillshadeFast(g, x, y, gradientScale, sunX, sunY, sunZ, flatIllumination) ==
    LET a == gridGet(g, x - 1, y - 1)
        b == gridGet(g, x, y - 1)
        c == gridGet(g, x + 1, y - 1)
        d == gridGet(g, x - 1, y)
        f == gridGet(g, x + 1, y)
        gg == gridGet(g, x - 1, y + 1)
        h == gridGet(g, x, y + 1)
        i == gridGet(g, x + 1, y + 1)
        \* dzdx = A / Q and dzdy = B / Q
        A == (c + 2 * f + i - (a + 2 * d + gg)) * gradientScale[1]
        B == (gg + 2 * h + i - (a + 2 * b + c)) * gradientScale[1]
        Q == gradientScale[2]
        \* (A, B, Q) brought to the order of 20000 to keep the squares in range
        largest == Max(Max(Abs(A), Abs(B)), Q)
        up == IF largest <= 20000 THEN 20000 \div largest ELSE 1
        down == IF largest <= 20000 THEN 1 ELSE (largest \div 20000) + 1
        dx == quot(A * up, down)
        dy == quot(B * up, down)
        one == quot(Q * up, down)
        normalMag == sqrt(dx * dx + dy * dy + one * one)
        dotProduct == quot(-sunX * dx - sunY * dy + sunZ * one, normalMag)
        illumination == quot(255 * dotProduct, 10)
    IN  IF belowFlatThreshold(A, B, Q) THEN flatIllumination
        ELSE IF illumination < 0 THEN 0
        ELSE IF illumination > 255000 THEN 255000
        ELSE illumination

\* hillshade(data, width, height, cellSize, {altitude, azimuth}) for a sun
\* position that validateSunPosition() accepts; cellSize is a fraction
hillshade(g, cellSize, altitude, azimuth) ==
    LET azimuthDeg == 360 - azimuth + 90
        zenithDeg == 90 - altitude
        cosZenith == cosDeg(zenithDeg)
        sinZenith == sinDeg(zenithDeg)
        sunX == quot(sinZenith * cosDeg(azimuthDeg), 10000)
        sunY == quot(sinZenith * sinDeg(azimuthDeg), 10000)
        sunZ == cosZenith
        gradientScale == <<cellSize[2], 8 * cellSize[1]>>
        flatIllumination == quot(255 * cosZenith, 10)
    IN  [width |-> g.width, height |-> g.height,
         data |-> [n \in 1..(g.width * g.height) |->
                    computePixelHillshadeFast(g, (n - 1) % g.width, (n - 1) \div g.width,
                                              gradientScale, sunX, sunY, sunZ,
                                              flatIllumination)]]

\* getHillshadeBaseline(sunAltitude)
getHillshadeBaseline(sunAltitude) == round(quot(cosDeg(90 - sunAltitude) * 255, 10))

\* the grid of one cell in which a corner is above the level exactly when
\* its value is: the polygons of a cell depend on its case index only
thresholdCell(values, lvl) ==
    [width |-> 2, height |-> 2,
     data |-> [n \in 1..4 |-> IF values[n] >= lvl THEN 2 ELSE 0]]

\* the number of polygons tracePolygons() finds in a grid of one cell
cellPolygonCount(values, lvl) == Len(tracePolygons(thresholdCell(values, lvl), 1))

\* tracePolygons(values, 2, 2, levels): one feature per polygon, level by
\* level, each with the property level (the geometry is left out); values
\* are in thousandths
RECURSIVE tracePolygonsOfCell(_, _, _)
tracePolygonsOfCell(values, levels, n) ==
    IF n > Len(levels) THEN <<>>
    ELSE [k \in 1..cellPolygonCount(values, 1000 * levels[n]) |-> [level |-> levels[n]]]
            \o tracePolygonsOfCell(values, levels, n + 1)

\* processHillshade(): the hillshade grid of the cell at the resolution of
\* the zoom
hillshadeGridOf(data, zoom) ==
    hillshade(cellGrid(data), getResolution(zoom),
              DEFAULT_SUN_ALTITUDE, DEFAULT_SUN_AZIMUTH)

\* processHillshade(): highlightFeatures, shade = 0.5 to 1.0
highlightFeatures(highlightPolygons, baseline) ==
    [n \in 1..Len(highlightPolygons) |->
        LET lvl == highlightPolygons[n].level
        IN  [level |-> lvl,
             shade |-> RAdd(<<1, 2>>,
                            RMul(RDiv(RInt(lvl - baseline), RInt(255 - baseline)),
                                 <<1, 2>>))]]

\* shadow features that keep the inverted level
shadowFeaturesInverted(shadowPolygons, baseline) ==
    [n \in 1..Len(shadowPolygons) |->
        [level |-> shadowPolygons[n].level,
         shade |-> RMul(RDiv(RInt(shadowPolygons[n].level), RInt(baseline)), <<1, 2>>)]]

\* processHillshade(): shadowFeatures, shade = 0 to 0.5, the inverted level
\* converted back
shadowFeatures(shadowPolygons, baseline) ==
    [n \in 1..Len(shadowPolygons) |->
        LET originalLevel == 255 - shadowPolygons[n].level
        IN  [level |-> originalLevel,
             shade |-> RMul(RDiv(RInt(originalLevel), RInt(baseline)), <<1, 2>>)]]

\* shadowOriginalLevels.map(l => 255 - l)
invertLevels(levels) == [n \in 1..Len(levels) |-> 255 - levels[n]]

\* invertedData[i] = 255 - hillshadeGrid.data[i], in thousandths
invertData(hillshadeData) == [n \in 1..Len(hillshadeData) |-> 255000 - hillshadeData[n]]

\* processHillshade(grid, 2, 2, zoom): the features, shadows first, then
\* highlights; shadowCount is the number of shadow features among them
processHillshade(data, zoom) ==
    LET hillshadeData == hillshadeGridOf(data, zoom).data
        baseline == getHillshadeBaseline(DEFAULT_SUN_ALTITUDE)
        interval == getHillshadeInterval(zoom)
        highlightLevels == generateLevels(baseline, MAX_LUMINANCE, interval)
        shadowInvertedLevels == invertLevels(generateLevels(MIN_LUMINANCE, baseline, interval))
        highlights == highlightFeatures(
                          tracePolygonsOfCell(hillshadeData, highlightLevels, 1), baseline)
        shadows == shadowFeatures(
                       tracePolygonsOfCell(invertData(hillshadeData), shadowInvertedLevels, 1),
                       baseline)
    IN  [features |-> shadows \o highlights, geometryType |-> "Polygon",
         shadowCount |-> Len(shadows)]

-----------------------------------------------------------------------------
(* Calls of hillshade() and processHillshade() *)

ShadeElevations == {0, 10, 100}

ShadeCells == [1..4 -> ShadeElevations]

\* the grids of one cell, and the flat and the peaked grids of 3 x 3
ShadeGrids ==
    {cellGrid(data) : data \in ShadeCells}
        \cup {[width |-> 3, height |-> 3,
               data |-> [n \in 1..9 |-> IF n = 5 THEN peak ELSE base]] :
                 base \in ShadeElevations, peak \in ShadeElevations}

HillshadeCalls ==
    [call : {"hillshade"}, grid : ShadeGrids, cellSize : {<<1, 1>>, <<30, 1>>},
     altitude : {0, 30, 45, 60, 90}, azimuth : {0, 90, 315}]

ProcessHillshadeCalls == [call : {"processHillshade"}, data : ShadeCells, zoom : Zooms]

InitShade ==
    /\ fn = "input"
    /\ args \in HillshadeCalls \cup ProcessHillshadeCalls
    /\ result = <<>>
    /\ TraceIdle
    /\ ClipIdle
    /\ HandlerIdle

Hillshade ==
    /\ fn = "input"
    /\ args.call = "hillshade"
    /\ Returns("hillshade",
               hillshade(args.grid, args.cellSize, args.altitude, args.azimuth))

ProcessHillshade ==
    /\ fn = "input"
    /\ args.call = "processHillshade"
    /\ Returns("processHillshade", processHillshade(args.data, args.zoom))

NextShade == Hillshade \/ ProcessHillshade

SpecShade == InitShade /\ [][NextShade]_vars

-----------------------------------------------------------------------------
(* Calls of the level functions *)

\* corner elevations below, between and above the contour levels
Elevations == {-1000, 1300, 9500}

CellData == [1..4 -> Elevations]

InitLevels ==
    /\ fn = "input"
    /\ args \in [zoom : Zooms, data : CellData]
    /\ result = <<>>
    /\ TraceIdle
    /\ ClipIdle
    /\ HandlerIdle

GetIntervals ==
    /\ fn = "input"
    /\ Returns("getIntervals",
               [contour |-> getContourInterval(args.zoom),
                hillshade |-> getHillshadeInterval(args.zoom)])

ProcessContours ==
    /\ fn = "input"
    /\ Returns("processContours", processContours(args.data, args.zoom))

NextLevels == GetIntervals \/ ProcessContours

SpecLevels == InitLevels /\ [][NextLevels]_vars

\* the table of zoom-dependent intervals: rows <<from, to, contour, hillshade>>
IntervalTable ==
    <<<<0, 2, 2000, 32>>, <<3, 7, 1000, 32>>, <<8, 9, 500, 21>>, <<10, 11, 250, 21>>,
      <<12, 13, 100, 16>>, <<14, 14, 50, 16>>, <<15, 22, 10, 16>>>>

TableRow(zoom) ==
    IntervalTable[CHOOSE r \in 1..Len(IntervalTable) :
                      IntervalTable[r][1] <= zoom /\ zoom <= IntervalTable[r][2]]

\* C12: for every integer zoom in 0..22, getContourInterval and
\* getHillshadeInterval return the values of the table: contour 2000 (z<=2),
\* 1000 (3..7), 500 (8..9), 250 (10..11), 100 (12..13), 50 (14), 10 (>=15);
\* hillshade 32 (z<=7), 21 (8..11), 16 (>=12).
C12_IntervalTable ==
    fn = "getIntervals" =>
        /\ result.contour = TableRow(args.zoom)[3]
        /\ result.hillshade = TableRow(args.zoom)[4]

C12_Witness ==
    /\ fn = "getIntervals"
    /\ args.zoom = 14
    /\ result = [contour |-> 50, hillshade |-> 16]

\* the levels for which the call returned a contour, and those flagged
TracedLevels == {result[n].level : n \in 1..Len(result)}

IndexLevels == {result[n].level : n \in {m \in 1..Len(result) : result[m].index}}

\* C13: at every zoom level 0..22, among the contours of the levels
\* generateLevels(-500, 9000, interval(zoom)), index is true for every 5th
\* contour: of any five consecutive generated levels that all have contours,
\* exactly one is flagged index = true.
C13_EveryFifthIndex ==
    fn = "processContours" =>
        LET levels == generateLevels(MIN_ELEVATION, MAX_ELEVATION,
                                     getContourInterval(args.zoom))
            traced == TracedLevels
            flagged == IndexLevels
        IN  \A k \in 1..(Len(levels) - 4) :
                (\A m \in k..(k + 4) : levels[m] \in traced) =>
                    Cardinality({m \in k..(k + 4) : levels[m] \in flagged}) = 1

-----------------------------------------------------------------------------
(* Elevation encoding: src/lib/dem/elevation.ts                            *)
(*                                                                         *)
(* An elevation is <<m, f>>: m metres plus f / Units metres, 0 <= f < Units.*)
(* Units is a multiple of 10 and of 256, so the steps of both schemes fall *)
(* on whole units.                                                         *)

MAPBOX_OFFSET == 10000
TERRARIUM_OFFSET == 32768

Units == 5 * 256

\* a store into a Uint8ClampedArray
clampByte(v) == Max(0, Min(255, v))

\* encodeMapbox(): Math.round rounds halves up; >> and & act on the two's
\* complement of the value
encodeMapboxTruncating(h) ==
    LET value == (h[1] + MAPBOX_OFFSET) * 10 + ((h[2] * 10) \div Units)
    IN  <<(value \div 65536) % 256, (value \div 256) % 256, value % 256>>

encodeMapbox(h) ==
    LET value == (h[1] + MAPBOX_OFFSET) * 10 + ((h[2] * 10 + Units \div 2) \div Units)
    IN  <<(value \div 65536) % 256, (value \div 256) % 256, value % 256>>

\* decodeMapbox(), in exact arithmetic
decodeMapbox(r, g, b) ==
    LET value == r * 256 * 256 + g * 256 + b
    IN  <<(value \div 10) - MAPBOX_OFFSET, (value % 10) * (Units \div 10)>>

\* decodeMapbox() in doubles: the sign of (value / 10.0 - MAPBOX_OFFSET) minus
\* the exact result.  value / 10.0 is rounded to 53 bits, to the nearest,
\* ties to even; from 10000 on the subtraction is exact, below it rounds
\* again and either sign can remain.
mapboxRounding(r, g, b) ==
    LET value == r * 256 * 256 + g * 256 + b
        exponent == CHOOSE e \in 0..24 : Pow2(e) * 10 <= value /\ value < Pow2(e + 1) * 10
        \* 2^(52 - exponent) modulo 20
        scale == <<4, 8, 16, 12>>[((50 - exponent) % 4) + 1]
        t == ((value % 20) * scale) % 20
    IN  IF value % 5 = 0 THEN {0}
        ELSE IF value < 10 * MAPBOX_OFFSET THEN {-1, 1}
        ELSE IF t % 10 < 5 THEN {-1}
        ELSE IF t % 10 > 5 THEN {1}
        ELSE IF (t \div 10) % 2 = 1 THEN {1} ELSE {-1}

\* encodeTerrarium(), on adjusted = elevation + TERRARIUM_OFFSET in units
encodeTerrarium(h) ==
    LET adjusted == (h[1] + TERRARIUM_OFFSET) * Units + h[2]
        r == adjusted \div (256 * Units)
        g == jsRem(adjusted, 256 * Units) \div Units
        b == ((adjusted - r * 256 * Units - g * Units) * 256) \div Units
    IN  <<r, g, b>>

\* decodeTerrarium(): every operation is exact in doubles
decodeTerrarium(r, g, b) ==
    <<r * 256 + g - TERRARIUM_OFFSET, b * (Units \div 256)>>

\* encodeElevation() of a grid of one cell
encodeElevation(h, encoding) ==
    LET rgb == IF encoding = "mapbox" THEN encodeMapbox(h) ELSE encodeTerrarium(h)
    IN  <<clampByte(rgb[1]), clampByte(rgb[2]), clampByte(rgb[3]), 255>>

\* decodeElevation() of an image of one pixel
decodeElevation(pixel, encoding) ==
    IF encoding = "mapbox" THEN decodeMapbox(pixel[1], pixel[2], pixel[3])
    ELSE decodeTerrarium(pixel[1], pixel[2], pixel[3])

decodeRounding(pixel, encoding) ==
    IF encoding = "mapbox" THEN mapboxRounding(pixel[1], pixel[2], pixel[3]) ELSE {0}

\* elevations around the ends of the ranges of the two schemes, sea level
\* and a summit, at every fraction of a metre
ElevationCalls ==
    [encoding : {"mapbox"}, metres : {-10001, -10000, -1, 0, 22768, 1667721},
     frac : 0..(Units - 1)]
        \cup [encoding : {"terrarium"},
              metres : {-32769, -32768, -1, 0, 22768, 32767, 32768},
              frac : 0..(Units - 1)]

InitElevation ==
    /\ fn = "input"
    /\ args \in ElevationCalls
    /\ result = <<>>
    /\ TraceIdle
    /\ ClipIdle
    /\ HandlerIdle

EncodeElevation ==
    /\ fn = "input"
    /\ Returns("encodeElevation",
               [pixel |-> encodeElevation(<<args.metres, args.frac>>, args.encoding)])

DecodeElevation ==
    /\ fn = "encodeElevation"
    /\ \E e \in decodeRounding(result.pixel, args.encoding) :
          Returns("decodeElevation",
                  [pixel |-> result.pixel,
                   elevation |-> decodeElevation(result.pixel, args.encoding),
                   rounding |-> e])

NextElevation == EncodeElevation \/ DecodeElevation

SpecElevation == InitElevation /\ [][NextElevation]_vars

-----------------------------------------------------------------------------
(* Chaikin smoothing: src/lib/dem/smooth.ts                                *)
(*                                                                         *)
(* A position is a pair of fractions <<n, d>>; the factor is a fraction.   *)

DEFAULT_ITERATIONS == 2
DEFAULT_FACTOR == <<1, 4>>

\* isClosedRing(): the ends of a line of 4 or more positions are less than
\* 1e-10 apart, which for the positions of the model means equal
isClosedRing(coords) ==
    /\ Len(coords) >= 4
    /\ coords[1] = coords[Len(coords)]

\* f1 * c1 + f2 * c2, coordinate by coordinate
blend(f1, c1, f2, c2) ==
    <<RAdd(RMul(f1, c1[1]), RMul(f2, c2[1])), RAdd(RMul(f1, c1[2]), RMul(f2, c2[2]))>>

\* subdivideCoords(): two positions per vertex, the last vertex paired with
\* the first
subdivideCoords(coords, factor) ==
    LET n == Len(coords)
        f1 == RSub(RInt(1), factor)
        f2 == factor
    IN  [k \in 1..(2 * n) |->
            LET i == (k - 1) \div 2
                c1 == coords[i + 1]
                c2 == coords[((i + 1) % n) + 1]
            IN  IF k % 2 = 1 THEN blend(f1, c1, f2, c2) ELSE blend(f2, c1, f1, c2)]

\* for (let i = 0; i < iterations; i++) current = subdivideCoords(current, factor)
RECURSIVE subdivideTimes(_, _, _)
subdivideTimes(current, iterations, factor) ==
    IF iterations <= 0 THEN current
    ELSE subdivideTimes(subdivideCoords(current, factor), iterations - 1, factor)

computeTrimLength(iterations) ==
    (iterations * (iterations + 1) * (2 * iterations + 1)) \div 6

smoothClosedRing(coords, iterations, factor) ==
    LET unique == IF isClosedRing(coords) THEN SubSeq(coords, 1, Len(coords) - 1) ELSE coords
        current == subdivideTimes(unique, iterations, factor)
    IN  Append(current, current[1])

\* the subdivided line as it is, neither trimmed nor given its end points
smoothOpenLineUntrimmed(coords, iterations, factor) ==
    subdivideTimes(coords, iterations, factor)

smoothOpenLine(coords, iterations, factor) ==
    IF iterations <= 0 \/ Len(coords) < 2 THEN coords
    ELSE LET current == subdivideTimes(coords, iterations, factor)
             trimLength == computeTrimLength(iterations)
         IN  <<coords[1]>> \o SubSeq(current, 1, Len(current) - trimLength)
                \o <<coords[Len(coords)]>>

\* smoothCoords(coords, { iterations, factor, closed })
smoothCoords(coords, options) ==
    LET iterations == Default(options.iterations, DEFAULT_ITERATIONS)
        factor == Default(options.factor, DEFAULT_FACTOR)
        closed == Default(options.closed, FALSE)
    IN  IF Len(coords) < 2 THEN coords
        ELSE IF closed \/ isClosedRing(coords)
        THEN smoothClosedRing(coords, iterations, factor)
        ELSE smoothOpenLine(coords, iterations, factor)

\* smoothLineStringFeature(): the coordinates of the smoothed line
smoothLineStringFeature(coords, options) ==
    smoothCoords(coords, [options EXCEPT !.closed = <<>>])

\* smoothPolygonFeature(): the smoothed ring
smoothPolygonFeature(ring, options) ==
    smoothCoords(ring, [options EXCEPT !.closed = <<TRUE>>])

-----------------------------------------------------------------------------
(* Calls of smooth() *)

MaxSmoothLen == 4       \* positions of a line
MaxIterations == 2      \* subdivision iterations

SmoothPoints == {<<RInt(0), RInt(0)>>, <<RInt(4), RInt(0)>>, <<RInt(4), RInt(4)>>}

SmoothLines == UNION {[1..n -> SmoothPoints] : n \in 1..MaxSmoothLen}

SmoothOptions ==
    [iterations : {<<>>} \cup {<<k>> : k \in 0..MaxIterations},
     factor : {<<>>, <<<<1, 2>>>>, <<<<0, 1>>>>},
     closed : {<<>>}]

InitSmooth ==
    /\ fn = "input"
    /\ args \in [coords : SmoothLines, options : SmoothOptions]
    /\ result = <<>>
    /\ TraceIdle
    /\ ClipIdle
    /\ HandlerIdle

SmoothLineString ==
    /\ fn = "input"
    /\ Returns("smoothLineString", smoothLineStringFeature(args.coords, args.options))

SmoothPolygon ==
    /\ fn = "input"
    /\ Len(args.coords) >= 2
    /\ Returns("smoothPolygon", smoothPolygonFeature(args.coords, args.options))

NextSmooth == SmoothLineString \/ SmoothPolygon

SpecSmooth == InitSmooth /\ [][NextSmooth]_vars

-----------------------------------------------------------------------------
(* Claims about hillshade *)

Half == <<1, 2>>

\* C14: for every zoom 0..22 with the default sun altitude, every hillshade
\* feature has 0 <= shade <= 1: every highlight feature has shade in
\* [0.5, 1], every shadow feature has shade in [0, 0.5], a feature whose level
\* equals the baseline has shade exactly 0.5, and the level of a shadow
\* feature is the original (non-inverted) luminance level: one of the levels
\* below the baseline, with a pixel of the hillshade grid at or below it.
C14_ShadeNormalised ==
    (fn = "processHillshade") =>
        LET baseline == getHillshadeBaseline(DEFAULT_SUN_ALTITUDE)
            levels == generateLevels(MIN_LUMINANCE, baseline,
                                     getHillshadeInterval(args.zoom))
            luminance == hillshadeGridOf(args.data, args.zoom).data
            f == result.features
        IN  \A n \in 1..Len(f) :
                /\ RLeq(RInt(0), f[n].shade)
                /\ RLeq(f[n].shade, RInt(1))
                /\ f[n].level = baseline => f[n].shade = Half
                /\ IF n > result.shadowCount
                   THEN RLeq(Half, f[n].shade)
                   ELSE /\ RLeq(f[n].shade, Half)
                        /\ \E k \in 1..Len(levels) : levels[k] = f[n].level
                        /\ \E c \in 1..Len(luminance) : luminance[c] <= 1000 * f[n].level

\* a cell with shadow features, a highlight feature at the baseline and a
\* brighter one
C14_Witness ==
    /\ fn = "processHillshade"
    /\ LET shadows == result.shadowCount
           f == result.features
       IN  /\ shadows > 0
           /\ \E n \in (shadows + 1)..Len(f) :
                  f[n].level = getHillshadeBaseline(DEFAULT_SUN_ALTITUDE)
           /\ \E n \in (shadows + 1)..Len(f) : RLess(Half, f[n].shade)
           /\ \E n \in 1..shadows : RLess(RInt(0), f[n].shade)

\* hillshade() was called on a grid whose cells all hold the same elevation
FlatCall ==
    /\ fn = "hillshade"
    /\ \A n \in 1..Len(args.grid.data) : args.grid.data[n] = args.grid.data[1]

\* 255 * cos(zenith) in thousandths
FlatLuminance(altitude) == quot(255 * cosDeg(90 - altitude), 10)

\* C16 as stated: for a grid whose cells all hold the same elevation,
\* hillshade returns a grid in which every pixel equals round(255*cos(zenith)),
\* that is exactly 180 for altitude 45 and azimuth 315.
C16_FlatIsRounded ==
    FlatCall =>
        \A n \in 1..Len(result.data) :
            /\ result.data[n] = 1000 * round(FlatLuminance(args.altitude))
            /\ (args.altitude = 45 /\ args.azimuth = 315) => result.data[n] = 180000

\* C16 as the code has it: for a grid whose cells all hold the same
\* elevation, every pixel equals 255*cos(zenith), not rounded; rounding it
\* gives round(255*cos(zenith)), the baseline, which is 180 for altitude 45
\* and azimuth 315, where the pixel itself is above 180.
C16_FlatIsCosine ==
    FlatCall =>
        \A n \in 1..Len(result.data) :
            /\ result.data[n] = FlatLuminance(args.altitude)
            /\ round(result.data[n]) = getHillshadeBaseline(args.altitude)
            /\ (args.altitude = 45 /\ args.azimuth = 315) =>
                  /\ round(result.data[n]) = 180
                  /\ result.data[n] > 180000

\* the flat 3 x 3 grid at elevation 100 under the default sun
C16_Witness ==
    /\ FlatCall
    /\ args.grid.width = 3
    /\ args.grid.data[1] = 100
    /\ args.altitude = 45
    /\ args.azimuth = 315
    /\ round(result.data[5]) = 180
    /\ round(result.data[1]) = 180

-----------------------------------------------------------------------------
(* Claims about the elevation encoding *)

\* the elevation of the call lies in the range its scheme can represent:
\* [-10000, 1667721.5] for MapBox, [-32768, 32768) for Terrarium
Representable ==
    IF args.encoding = "mapbox"
    THEN /\ args.metres >= -MAPBOX_OFFSET
         /\ \/ args.metres < 1667721
            \/ args.metres = 1667721 /\ args.frac <= Units \div 2
    ELSE args.metres >= -TERRARIUM_OFFSET /\ args.metres < TERRARIUM_OFFSET

\* decoded elevation minus encoded elevation, in units, in exact arithmetic
RoundTripError ==
    (result.elevation[1] - args.metres) * Units + (result.elevation[2] - args.frac)

\* 0.05 m, and the largest whole number of units within 0.004 m
MapboxTolerance == Units \div 20
TerrariumTolerance == (4 * Units) \div 1000

\* the error of the double result is larger than tol units
Exceeds(tol) ==
    \/ Abs(RoundTripError) > tol
    \/ RoundTripError = tol /\ result.rounding > 0
    \/ RoundTripError = -tol /\ result.rounding < 0

-----------------------------------------------------------------------------
(* Claims about smoothing *)

\* the line handed to smooth() is open: its ends differ, or it is too short
\* to be a ring
OpenLine == Len(args.coords) < 4 \/ args.coords[1] # args.coords[Len(args.coords)]

\* C17: for every open line with at least 2 vertices and every iterations
\* >= 0 and factor, the first coordinate of the smoothed line is exactly the
\* first input coordinate and the last coordinate of the smoothed line is
\* exactly the last input coordinate.
C17_EndpointsPreserved ==
    (fn = "smoothLineString" /\ Len(args.coords) >= 2 /\ OpenLine) =>
        /\ Len(result) >= 2
        /\ result[1] = args.coords[1]
        /\ result[Len(result)] = args.coords[Len(args.coords)]

\* a line of three vertices smoothed twice: new positions between its ends
C17_Witness ==
    /\ fn = "smoothLineString"
    /\ Len(args.coords) = 3
    /\ args.coords[1] # args.coords[3]
    /\ args.options.iterations = <<2>>
    /\ Len(result) > 3
    /\ result[2] # args.coords[1]
    /\ result[1] = args.coords[1]
    /\ result[Len(result)] = args.coords[3]

-----------------------------------------------------------------------------
(* Claims about TileFetcher.fetchTile *)

\* a call of fetchTile with a buffer is under way or over
BufferedCall == fn = "fetchTile" /\ args.bufferPx > 0

\* the tile at offset o of the requested tile lies in [0, 2^z) x [0, 2^z)
InRange(o) ==
    LET maxTile == Pow2(args.coord.z)
        x == args.coord.x + o[1]
        y == args.coord.y + o[2]
    IN  x >= 0 /\ x < maxTile /\ y >= 0 /\ y < maxTile

UrlOf(o) ==
    buildUrl(DEFAULT_TILE_URL, args.coord.z, args.coord.x + o[1], args.coord.y + o[2])

\* the number of HTTP requests issued so far for the tile at offset o
RequestsFor(o) ==
    Cardinality({k \in 1..Len(result.log.requests) : result.log.requests[k] = UrlOf(o)})

Requested(o) == RequestsFor(o) > 0

InFlight(o) == result.tiles[o] = "pending"

Range(seq) == {seq[k] : k \in 1..Len(seq)}

CallOver == fn = "fetchTile" /\ result.pc \in {"returned", "thrown"}

C19_OneRequestPerTileInRange ==
    (CallOver /\ InRange(Center)) =>
        IF args.bufferPx > 0
        THEN \A o \in Offsets : RequestsFor(o) = IF InRange(o) THEN 1 ELSE 0
        ELSE Len(result.log.requests) = 1

\* C20: for an interior tile (all neighbours in range) and bufferPx > 0,
\* fetchTile issues exactly 4 HTTP requests.
C20_FourRequests ==
    (BufferedCall /\ result.pc = "returned" /\ \A o \in Offsets : InRange(o)) =>
        Len(result.log.requests) = 4

-----------------------------------------------------------------------------
(* Calls of mergeSegments(), loop iteration by loop iteration *)

MaxSegments == 3    \* segments handed to mergeSegments

\* three grid points and a point EPSILON beside the third, which rounds to
\* the same key
MergePoints ==
    {Corner(0, 0), Corner(1, 0), Corner(1, 1), << <<Scale, 1>>, <<Scale, 0>> >>}

MergeSegmentsOf == {seg \in MergePoints \X MergePoints : seg[1] # seg[2]}

MergeInputs == UNION {[1..n -> MergeSegmentsOf] : n \in 0..MaxSegments}

InitMerge ==
    /\ fn = "input"
    /\ args \in MergeInputs
    /\ result = <<>>
    /\ TraceIdle
    /\ ClipIdle
    /\ HandlerIdle

\* mergeSegments() up to its main loop
BuildChains ==
    /\ fn = "input"
    /\ IF Len(args) = 0
       THEN Returns("mergeSegments", [ms |-> <<>>, i |-> 0, out |-> <<>>])
       ELSE Returns("merging", [ms |-> initialMergeState(args), i |-> 1, out |-> <<>>])

\* one iteration of the while loop of extendChain that merges a chain
ExtendChain ==
    /\ fn = "merging"
    /\ result.i <= Len(result.ms.chains)
    /\ ~result.ms.chains[result.i].merged
    /\ LET r == extendStep(result.ms, result.i)
       IN  /\ r.changed
           /\ Returns("merging", [result EXCEPT !.ms = r.ms])

\* the main loop goes on to the next chain: this one is merged, or the
\* while loop of extendChain found nothing to merge
NextChain ==
    /\ fn = "merging"
    /\ result.i <= Len(result.ms.chains)
    /\ \/ result.ms.chains[result.i].merged
       \/ ~extendStep(result.ms, result.i).changed
    /\ Returns("merging", [result EXCEPT !.i = @ + 1])

\* chains.filter((c) => !c.merged).map((c) => c.coords)
CollectChains ==
    /\ fn = "merging"
    /\ result.i > Len(result.ms.chains)
    /\ Returns("mergeSegments", [result EXCEPT !.out = unmergedCoords(result.ms.chains, 1)])

NextMerge == BuildChains \/ ExtendChain \/ NextChain \/ CollectChains

SpecMerge == InitMerge /\ [][NextMerge]_vars

-----------------------------------------------------------------------------
(* Claims about the points of a smoothed line *)

\* the points at fractions factor and 1 - factor of the n - 1 segments of a
\* line, in order
SegmentPoints(coords, factor) ==
    [k \in 1..(2 * (Len(coords) - 1)) |->
        LET i == (k + 1) \div 2
        IN  IF k % 2 = 1
            THEN blend(RSub(RInt(1), factor), coords[i], factor, coords[i + 1])
            ELSE blend(factor, coords[i], RSub(RInt(1), factor), coords[i + 1])]

-----------------------------------------------------------------------------
(* Claims about mergeSegments *)

EndKeys(coords) == {coordKey(coords[1]), coordKey(coords[Len(coords)])}

\* C22: mergeSegments returns maximal chains: no two distinct output
\* polylines have an endpoint with the same quantized key, whatever the order
\* and orientation of the input segments; the stepwise merge returns what
\* mergeSegments() returns.
C22_MaximalChains ==
    (fn = "mergeSegments") =>
        /\ result.out = mergeSegments(args)
        /\ \A m \in 1..Len(result.out), n \in 1..Len(result.out) :
                m # n => EndKeys(result.out[m]) \cap EndKeys(result.out[n]) = {}

\* three segments given out of order and against each other end up in one
\* polyline
C22_Witness ==
    /\ fn = "mergeSegments"
    /\ Len(args) = 3
    /\ Len(result.out) = 1
    /\ Len(result.out[1]) = 4
    /\ coordKey(args[1][1]) = coordKey(args[2][1])
    /\ coordKey(args[3][2]) = coordKey(args[1][2])
    /\ coordKey(result.out[1][1]) # coordKey(result.out[1][4])

\* the edges of a polyline, each as the set of the keys of its two ends
EdgesOf(coords) ==
    [n \in 1..(Len(coords) - 1) |-> {coordKey(coords[n]), coordKey(coords[n + 1])}]

RECURSIVE SumSeq(_)
SumSeq(seq) == IF seq = <<>> THEN 0 ELSE Head(seq) + SumSeq(Tail(seq))

CountIn(seq, e) == Cardinality({n \in 1..Len(seq) : seq[n] = e})

\* how often an edge occurs in the polylines
EdgeCount(polylines, e) ==
    LET counts == [n \in 1..Len(polylines) |-> CountIn(EdgesOf(polylines[n]), e)]
    IN  SumSeq(counts)

AllEdges(polylines) ==
    UNION {{EdgesOf(polylines[n])[k] : k \in 1..(Len(polylines[n]) - 1)} :
                n \in 1..Len(polylines)}

\* the polylines held by the chains that are not merged
Unmerged(ms) == unmergedCoords(ms.chains, 1)

\* every chain that is not merged is indexed once under its start key and
\* once under its end key, and a merged chain is indexed nowhere
Indexed(ms) ==
    \A c \in 1..Len(ms.chains) :
        \A k \in DOMAIN ms.byStart :
            /\ CountIn(ms.byStart[k], c) =
                    IF ~ms.chains[c].merged /\ ms.chains[c].startKey = k THEN 1 ELSE 0
            /\ CountIn(ms.byEnd[k], c) =
                    IF ~ms.chains[c].merged /\ ms.chains[c].endKey = k THEN 1 ELSE 0

\* the segments are all there, each once: as edges of the chains that are
\* not merged, compared by the keys of their ends
SegmentsKept(polylines) ==
    /\ \A e \in AllEdges(args) \cup AllEdges(polylines) :
            EdgeCount(polylines, e) = EdgeCount(args, e)
    /\ SumSeq([n \in 1..Len(polylines) |-> Len(polylines[n]) - 1]) = Len(args)

MergedCount(ms) == Cardinality({c \in 1..Len(ms.chains) : ms.chains[c].merged})

\* a step of the merge never takes a merged chain back, and every merge
\* takes one more chain out: the loops end
MergeStep ==
    (fn = "merging" /\ fn' = "merging") =>
        /\ \A c \in 1..Len(result.ms.chains) :
                result.ms.chains[c].merged => result'.ms.chains[c].merged
        /\ \/ result'.i = result.i + 1 /\ result'.ms = result.ms
           \/ /\ result'.i = result.i
              /\ MergedCount(result'.ms) = MergedCount(result.ms) + 1
              /\ ~result'.ms.chains[result.i].merged

-----------------------------------------------------------------------------
(* Claims about traced lines and full grids *)

\* the point lies on the outer boundary of the grid
OnBoundary(p) ==
    \/ p[1] = <<0, 0>>
    \/ p[1] = <<(grid.width - 1) * Scale, 0>>
    \/ p[2] = <<0, 0>>
    \/ p[2] = <<(grid.height - 1) * Scale, 0>>

\* the point lies in [0, W-1] x [0, H-1]
InGrid(p) ==
    /\ ~NLess(p[1], <<0, 0>>)
    /\ ~NLess(<<(grid.width - 1) * Scale, 0>>, p[1])
    /\ ~NLess(p[2], <<0, 0>>)
    /\ ~NLess(<<(grid.height - 1) * Scale, 0>>, p[2])

\* C24: in line mode every polyline returned by traceLines is either closed
\* (first point equals last point) or has both of its endpoints on the outer
\* boundary of the grid; no contour line ends in the interior of the grid,
\* and every coordinate lies in [0, W-1] x [0, H-1].
C24_LinesEndOnBoundary ==
    (tracePc = "lines") =>
        \A n \in 1..Len(lines) :
            LET c == lines[n].coords
            IN  /\ \/ c[1] = c[Len(c)]
                   \/ OnBoundary(c[1]) /\ OnBoundary(c[Len(c)])
                /\ \A k \in 1..Len(c) : InGrid(c[k])

\* the ring runs once around the rectangle [0, W-1] x [0, H-1], from grid
\* point to neighbouring grid point
IsGridBoundary(ring) ==
    LET n == Len(ring) - 1
    IN  /\ n = 2 * (grid.width - 1) + 2 * (grid.height - 1)
        /\ ring[1] = ring[n + 1]
        /\ \A k \in 1..n :
                /\ OnBoundary(ring[k])
                /\ InGrid(ring[k])
                /\ ring[k][1][2] = 0 /\ ring[k][2][2] = 0
                /\ Abs(ring[k][1][1] - ring[k + 1][1][1])
                        + Abs(ring[k][2][1] - ring[k + 1][2][1]) = Scale
                /\ ring[k][1] = ring[k + 1][1] \/ ring[k][2] = ring[k + 1][2]
        /\ \A k \in 1..n, m \in 1..n : k # m => ring[k] # ring[m]

\* C25: for a W x H grid in which every value is >= level, tracePolygons
\* returns exactly one polygon for that level, with no holes, whose shell is
\* the boundary of the rectangle [0, W-1] x [0, H-1]; for a grid in which
\* every value is < level it returns no polygon.
C25_FullAndEmptyGrid ==
    (tracePc = "polygons") =>
        /\ (\A c \in 1..Len(grid.data) : grid.data[c] >= level) =>
                /\ Len(polys) = 1
                /\ polys[1].level = level
                /\ Len(polys[1].rings) = 1
                /\ IsGridBoundary(polys[1].rings[1])
        /\ (\A c \in 1..Len(grid.data) : grid.data[c] < level) => polys = <<>>

\* a 3 x 3 grid above the level: one polygon, its shell of 8 edges
C25_Witness ==
    /\ tracePc = "polygons"
    /\ grid.width = 3
    /\ grid.height = 3
    /\ \A c \in 1..9 : grid.data[c] >= level
    /\ Len(polys) = 1
    /\ Len(polys[1].rings[1]) = 9

\* the Sutherland-Hodgman output of ring n of the polygon given to
\* transformAndClipPolygonFeatures
ClippedRing(n) ==
    clipPolygonRingToBox(mapTransform(clipIn[1].coordinates[n], clipCfg),
                         RInt(0), RInt(0), ClipBoxMax, ClipBoxMax)

\* the number of positions of a clipped ring once it is closed
ClosedLen(ring) == IF ring = <<>> THEN 0 ELSE Len(closeClippedRing(ring))

EmittedRings == IF clipOut = <<>> THEN <<>> ELSE clipOut[1].coordinates

\* C26: ring closure is enforced before the size test: a clipped ring is
\* kept exactly when it has four or more positions after closure, so a ring
\* whose Sutherland-Hodgman output has three vertices with first # last is
\* closed to four positions and kept.
C26_ClosureBeforeSizeTest ==
    (clipPc = "polygons") =>
        LET rings == clipIn[1].coordinates
            keptByClaim == {n \in 1..Len(rings) : ClosedLen(ClippedRing(n)) >= 4}
        IN  /\ Len(EmittedRings) = Cardinality(keptByClaim)
            /\ \A n \in 1..Len(rings) :
                    (Len(ClippedRing(n)) = 3 /\ ClippedRing(n)[1] # ClippedRing(n)[3])
                        => \E k \in 1..Len(EmittedRings) :
                                EmittedRings[k] = closeClippedRing(ClippedRing(n))

\* the size test of transformAndClipPolygonFeatures
PassesSizeTest(ring) == Len(ring) >= 4

\* the holes of the input polygon that survive clipping, closed, in their
\* input order
SurvivingHoles ==
    LET rings == clipIn[1].coordinates
        holes == SelectSeq([k \in 1..(Len(rings) - 1) |-> ClippedRing(k + 1)],
                           PassesSizeTest)
    IN  [k \in 1..Len(holes) |-> closeClippedRing(holes[k])]

\* C27: if clipping drops the shell (first ring) of a polygon, no feature is
\* emitted for it even when one of its holes survives; in every emitted
\* polygon the first ring is the clipped shell of the input polygon,
\* followed by its surviving holes in their input order.
C27_ShellFirst ==
    (clipPc = "polygons") =>
        /\ ~PassesSizeTest(ClippedRing(1)) => clipOut = <<>>
        /\ clipOut # <<>> =>
                /\ PassesSizeTest(ClippedRing(1))
                /\ EmittedRings = <<closeClippedRing(ClippedRing(1))>> \o SurvivingHoles

-----------------------------------------------------------------------------
(* Claims about the shared fetcher *)

\* the URL template of the environment of request i
OwnUrl(i) ==
    IF workload[i].env.DEM_TILE_URL = Unset THEN DEFAULT_TILE_URL
    ELSE workload[i].env.DEM_TILE_URL[1]

\* the URLs of the 3x3 neighbourhood of request i under a template
NeighbourhoodUrls(i, template) ==
    {buildUrl(template, rq[i].coord[1].z, rq[i].coord[1].x + o[1], rq[i].coord[1].y + o[2]) :
        o \in Offsets}

OwnUrlOnly ==
    \A i \in 1..Len(workload) :
        \A k \in 1..Len(rq[i].log.requests) :
            rq[i].log.requests[k] \in NeighbourhoodUrls(i, OwnUrl(i))

\* request i calls getTileFetcher in this step
GetsFetcher(i) == rq[i].fetcher = NoFetcher /\ rq'[i].fetcher # NoFetcher

FetcherStep ==
    \A m \in {"handler", "terrain"} :
        LET callers == {i \in 1..Len(workload) :
                            ModuleOf(workload[i].kind) = m /\ GetsFetcher(i)}
        IN  /\ callers = {} => fetchers'[m] = fetchers[m]
            /\ \A i \in callers :
                    /\ rq'[i].fetcher = fetchers'[m]
                    /\ fetchers'[m].url = <<OwnUrl(i)>>
                    /\ fetchers[m].url = <<OwnUrl(i)>> => fetchers'[m] = fetchers[m]
                    /\ fetchers[m].url # <<OwnUrl(i)>> =>
                            fetchers'[m].generation = fetchers[m].generation + 1

\* C28: after any sequence and interleaving of requests with arbitrary
\* DEM_TILE_URL values, every request fetches its source tiles with the URL
\* template of its own environment (the default URL when unset); the shared
\* fetcher is replaced exactly when the URL of a request differs from the URL
\* the current fetcher was created with, and is reused otherwise.
C28_OwnUrlFetcher == []OwnUrlOnly /\ [][FetcherStep]_vars

\* two requests of one module with different URLs, both mid-fetch after the
\* fetcher was replaced, each having issued its second batch
C28_Witness ==
    /\ Len(workload) = 2
    /\ ModuleOf(workload[1].kind) = ModuleOf(workload[2].kind)
    /\ OwnUrl(1) # OwnUrl(2)
    /\ Len(rq[1].log.requests) >= 2
    /\ Len(rq[2].log.requests) >= 2
    /\ fetchers[ModuleOf(workload[1].kind)].generation = 2

-----------------------------------------------------------------------------
(* Claims about cache writes *)

CacheEnabledFor(i) == workload[i].env.CACHE_ENABLED # <<"false">>

\* what the log and the response of each request say about its cache write
WriteRecord ==
    \A i \in 1..Len(workload) :
        /\ rq[i].log.puts <= 1
        /\ rq[i].log.lookups <= 1
        /\ rq[i].log.puts = 1 =>
                /\ CacheEnabledFor(i)
                /\ rq[i].log.lookups = 1
                /\ ~rq[i].log.hit
                /\ rq[i].pc = "done"
                /\ rq[i].resp.status = 200
        /\ (rq[i].pc = "done" /\ rq[i].resp.status \in {400, 500}) => rq[i].log.puts = 0
        /\ rq[i].log.hit => rq[i].log.puts = 0
        /\ ~CacheEnabledFor(i) => rq[i].log.lookups = 0 /\ rq[i].log.puts = 0

PendingByOwner ==
    \A p \in pendingPuts :
        /\ rq[p.by].log.puts = 1
        /\ p.key = RequestKey(p.by)
        /\ p.response = rq[p.by].resp

\* a write is scheduled in the step that builds the 200 response, by the
\* request that built it, under the key it looked up
WriteStep ==
    /\ \A i \in 1..Len(workload) :
            rq'[i].log.puts # rq[i].log.puts =>
                /\ rq[i].pc \in {"match", "center", "cardinals", "corners"}
                /\ rq[i].resp = NoResponse
                /\ \E p \in pendingPuts' \ pendingPuts :
                        /\ p.by = i
                        /\ p.key = cacheKey(workload[i].kind, rq'[i].coord[1])
                        /\ p.response = rq'[i].resp
    /\ \A p \in pendingPuts' \ pendingPuts :
            rq'[p.by].log.puts = rq[p.by].log.puts + 1

\* C29: a cache write is scheduled at most once per request, only when the
\* cache is enabled, only after the 200 response of a freshly generated tile
\* has been constructed, and under the key that was looked up; a 400
\* response, a 500 response and a response served from the cache never cause
\* a cache write, and with CACHE_ENABLED = 'false' the handler performs
\* neither cache lookups nor cache writes.
C29_WriteOncePerFreshTile ==
    [](WriteRecord /\ PendingByOwner) /\ [][WriteStep]_vars

\* a request built its tile and scheduled the write, the write landed, and
\* a second request for the tile was served from the cache without writing
C29_Witness ==
    \E i, j \in 1..Len(workload) :
        /\ rq[i].pc = "done" /\ rq[i].resp.status = 200 /\ rq[i].log.puts = 1
        /\ rq[j].pc = "done" /\ rq[j].log.hit /\ rq[j].log.puts = 0
        /\ rq[j].resp = rq[i].resp
        /\ pendingPuts = {}

-----------------------------------------------------------------------------
(* Sampling the stitched canvas *)

SOURCE_TILE_SIZE == 512

\* Math.floor(tile * scale), without the half pixel
scaleToSourceTruncated(tile, sourceTileSize) ==
    (tile * sourceTileSize) \div TILE_SIZE

\* Math.floor((tile + 0.5) * scale) with scale = sourceTileSize / TILE_SIZE
scaleToSource(tile, sourceTileSize) ==
    ((2 * tile + 1) * sourceTileSize) \div (2 * TILE_SIZE)

\* Math.max(lo, Math.min(hi, v))
clamp(v, lo, hi) ==
    LET upper == IF hi < v THEN hi ELSE v
    IN  IF lo > upper THEN lo ELSE upper

\* the body of the loops of sampleFromStitched() for output pixel (ox, oy):
\* the canvas position before and after the clamp
sampleSource(ox, oy, bufferPx, sourceTileSize) ==
    LET s == sourceTileSize
        stitchedSize == s * 3
        tileX == ox - bufferPx
        tileY == oy - bufferPx
        scaledX == s + scaleToSource(tileX, s)
        scaledY == s + scaleToSource(tileY, s)
    IN  [scaledX |-> scaledX, scaledY |-> scaledY,
         srcX |-> clamp(scaledX, 0, stitchedSize - 1),
         srcY |-> clamp(scaledY, 0, stitchedSize - 1)]

\* stitchTiles(): where the tile at offset o of the neighbourhood is copied
canvasOffset(o, s) == <<(o[1] + 1) * s, (o[2] + 1) * s>>

\* the tile whose copy covers canvas position (x, y)
tileAtCanvas(x, y, s) ==
    CHOOSE o \in Offsets :
        /\ canvasOffset(o, s)[1] <= x /\ x < canvasOffset(o, s)[1] + s
        /\ canvasOffset(o, s)[2] <= y /\ y < canvasOffset(o, s)[2] + s

MaxBufferPx == 257      \* one more than half a source tile

SampleBuffers == {0, 1, BUFFER_PX, 255, 256, MaxBufferPx}

\* output positions at the ends of the grid, around the tile's edges and in
\* its middle
SamplePixels(b) ==
    {o \in {0, 1, b - 1, b, b + 1, b + 128, b + 255, b + 256, 2 * b + 254, 2 * b + 255} :
        0 <= o /\ o < TILE_SIZE + 2 * b}

InitSample ==
    /\ fn = "input"
    /\ args \in UNION {{[bufferPx |-> b, ox |-> x, oy |-> y] :
                            x \in SamplePixels(b), y \in SamplePixels(b)} :
                       b \in SampleBuffers}
    /\ result = <<>>
    /\ TraceIdle
    /\ ClipIdle
    /\ HandlerIdle

SampleFromStitched ==
    /\ fn = "input"
    /\ Returns("sampleFromStitched",
               sampleSource(args.ox, args.oy, args.bufferPx, SOURCE_TILE_SIZE))

NextSample == SampleFromStitched

SpecSample == InitSample /\ [][NextSample]_vars

\* the side of the center tile a tile-relative coordinate falls on
SideOf(t) == IF t < 0 THEN -1 ELSE IF t >= 256 THEN 1 ELSE 0

\* C21: with source tile size S = 512 and 0 <= b <= 256, every output pixel
\* (ox, oy) of the buffered grid reads the stitched 3S x 3S canvas at
\* (S + floor((ox-b+0.5)*S/256), S + floor((oy-b+0.5)*S/256)), a position
\* inside the canvas without clamping; it lies in the center tile's region
\* exactly when 0 <= ox-b < 256 and 0 <= oy-b < 256, and otherwise in the
\* region of the neighbour on the corresponding side.
C21_SamplesInsideCanvas ==
    (fn = "sampleFromStitched" /\ args.bufferPx <= 256) =>
        LET tx == args.ox - args.bufferPx
            ty == args.oy - args.bufferPx
            px == 512 + ((2 * tx + 1) * 512) \div 512
            py == 512 + ((2 * ty + 1) * 512) \div 512
        IN  /\ result.scaledX = px /\ result.scaledY = py
            /\ result.srcX = px /\ result.srcY = py
            /\ 0 <= px /\ px < 3 * 512
            /\ 0 <= py /\ py < 3 * 512
            /\ tileAtCanvas(result.srcX, result.srcY, 512) = <<SideOf(tx), SideOf(ty)>>
            /\ tileAtCanvas(result.srcX, result.srcY, 512) = Center
                    <=> (0 <= tx /\ tx < 256 /\ 0 <= ty /\ ty < 256)

\* the first column and the last row of the grid with the largest buffer
\* read the first column and the last row of the canvas, in the bottom-left
\* neighbour
C21_Witness ==
    /\ fn = "sampleFromStitched"
    /\ args.bufferPx = 256
    /\ args.ox = 0
    /\ args.oy = 767
    /\ result.srcX = 1
    /\ result.srcY = 1535
    /\ tileAtCanvas(result.srcX, result.srcY, SOURCE_TILE_SIZE) = <<-1, 1>>

====
